---- MODULE Spec2Model ----
(***************************************************************************)
(* A model of unctytwod.py: transforms of positions and 2x2 covariances    *)
(* between the detector plane, the tangent plane and the sky.              *)
(*                                                                         *)
(* Every object of the program is one record-valued variable whose fields  *)
(* carry the attribute names of the Python class.  numpy arrays of shape   *)
(* (N,) are sequences, 2D coefficient arrays are functions over 0..deg,    *)
(* the empty array np.array([]) is <<>>.  Numbers that the program divides *)
(* are exact rationals <<numerator, denominator>>.                         *)
(***************************************************************************)
EXTENDS Integers, Sequences, FiniteSets, TLC

VARIABLES
    pc,      \* a Polycoeffs instance
    pv,      \* a Parvec instance
    poly,    \* a Poly instance
    pm,      \* a Patternmatrix instance
    pmargs,  \* the arguments a Patternmatrix is built from, and coefficients
    gn,      \* a Tan2equ or Equ2tan instance
    chain,   \* an xy2equ or TangentPlane instance
    chainargs, \* the arguments a chain is constructed from
    ret,     \* what the last call of a method that returns a value returned
    count,   \* a coefficient count handed to Polycoeffs.assigndeg
    deg,     \* the degree assigndeg leaves in the instance for that count
    raised,  \* the exception the last call ended with, or "none"
    pn,      \* a Polynom instance
    calls,   \* number of calls made on the instances since construction
    call     \* the last call made and its arguments

vars ==
    <<pc, pv, poly, pm, pmargs, gn, chain, chainargs, ret, count, deg, raised,
      pn, calls, call>>

(***************************************************************************)
(* Bounds of the model.                                                    *)
(***************************************************************************)
MaxDeg == 2         \* flat coefficient vectors have up to Tri(MaxDeg) entries
MaxCalls == 2       \* calls made on an instance after its construction
MaxPts == 2         \* points in a batch of positions
MaxCount == 60      \* small coefficient counts tried on assigndeg
MaxBigDeg == 1000   \* degrees around which large counts are tried

(***************************************************************************)
(* Program constants.                                                      *)
(***************************************************************************)
TolDen == 1000      \* assigndeg's integrality tolerance is 1/TolDen (1.0e-3)
NoDeg == -1         \* "inconsistent or unfilled" degree

(***************************************************************************)
(* Sequence helpers.                                                       *)
(***************************************************************************)
Zeros2d(n) == [a \in 0..(n-1) |-> [b \in 0..(n-1) |-> 0]]

(***************************************************************************)
(* Exact rational arithmetic, for the quantities the program divides.      *)
(* A rational is <<n, d>> in lowest terms with d > 0.                      *)
(***************************************************************************)
Abs(a) == IF a < 0 THEN -a ELSE a

\* the element of a one-element set.  A value taken from {e} is computed
\* once, before the expression using it is entered, which keeps the
\* evaluation shallow.
Only(S) == CHOOSE v \in S : TRUE

RECURSIVE Gcd(_, _)
Gcd(a, b) == IF b = 0 THEN a ELSE Gcd(b, a % b)

Rat(n, d) ==
    LET g == Gcd(Abs(n), Abs(d))
        sgn == IF d < 0 THEN -1 ELSE 1
    IN  <<(sgn * n) \div g, (sgn * d) \div g>>

RInt(a) == <<a, 1>>
\* sums over the least common denominator and products with the common
\* factors taken out first, which keeps the intermediate integers small
RAdd(q, r) ==
    LET g == Gcd(q[2], r[2])
    IN  Rat(q[1] * (r[2] \div g) + r[1] * (q[2] \div g), (q[2] \div g) * r[2])
RMul(q, r) ==
    LET g == Gcd(Abs(q[1]), r[2])
        h == Gcd(Abs(r[1]), q[2])
    IN  Rat((q[1] \div g) * (r[1] \div h), (q[2] \div h) * (r[2] \div g))
RECURSIVE RPow(_, _)
RPow(q, a) ==
    IF a = 0 THEN RInt(1) ELSE Only({RMul(q, r) : r \in {RPow(q, a - 1)}})

\* the sum of f[k] over the finite index set S
RECURSIVE RSum(_, _)
RSum(f, S) ==
    IF S = {} THEN RInt(0)
    ELSE LET k == CHOOSE k \in S : TRUE
         IN  Only({RAdd(v, r) : v \in {f[k]}, r \in {RSum(f, S \ {k})}})

\* 2x2 matrices of rationals, <<<<m00, m01>>, <<m10, m11>>>>
Transpose_none(A) == A
Transpose(A) == [a \in 1..2 |-> [b \in 1..2 |-> A[b][a]]]
RMat(A) == [a \in 1..2 |-> [b \in 1..2 |-> RInt(A[a][b])]]
MatMul(A, B) ==
    [a \in 1..2 |-> [b \in 1..2 |->
        RAdd(RMul(A[a][1], B[1][b]), RMul(A[a][2], B[2][b]))]]
Eye2 == <<<<RInt(1), RInt(0)>>, <<RInt(0), RInt(1)>>>>

(***************************************************************************)
(* Polycoeffs                                                              *)
(***************************************************************************)

\* number of coefficients of a polynomial of degree d: (d+1)(d+2)/2
Tri(d) == ((d + 1) * (d + 2)) \div 2

\* int(d) for d = (-3 + sqrt(9 + 8(m-1)))/2: the largest k with Tri(k) <= m
DegWhole(m) == CHOOSE k \in (-1)..m : Tri(k) <= m /\ m < Tri(k + 1)

\* degfromcoeffs returns the real root d of (d+1)(d+2)/2 = m.  The root is
\* kept exactly, as its integer part and the count in excess of Tri(whole):
\* d = whole exactly when excess = 0, and whole < d < whole+1 otherwise.
degfromcoeffs(m) == [whole |-> DegWhole(m), excess |-> m - Tri(DegWhole(m))]

\* abs(d - int(d)) > 1/den, for d = degfromcoeffs(m):
\*   d - k > 1/den  <=>  sqrt(8m+1) > 2k + 3 + 2/den
\*                  <=>  8(m - Tri(k)) > 4(2k+3)/den + 4/den^2
\*                  <=>  2 * excess * den^2 > (2k+3) * den + 1
FracExceeds(d, den) == 2 * d.excess * den * den > (2 * d.whole + 3) * den + 1

\* Polycoeffs.assigndeg, as a function of np.size(self.p)
assigndeg(m) ==
    LET degr == degfromcoeffs(m)
    IN  IF FracExceeds(degr, TolDen) THEN NoDeg ELSE degr.whole

\* the two arrays ijfromdeg stacks for one total degree iterm
jcount(iterm) == [n \in 1..(iterm + 1) |-> n - 1]
icount_forward(iterm) == [n \in 1..(iterm + 1) |-> n - 1]
icount(iterm) == [n \in 1..(iterm + 1) |-> iterm - (n - 1)]

RECURSIVE ijfromdeg(_)
ijfromdeg(d) ==
    IF d < 0 THEN [i |-> <<>>, j |-> <<>>]
    ELSE LET r == ijfromdeg(d - 1)
         IN  [i |-> r.i \o icount(d), j |-> r.j \o jcount(d)]

initcoeffs2d(d) == Zeros2d(d + 1)

\* p2d[i[l], j[l]] = p[l] for l in arange(size(p)); the last write wins
FillCoeffs2d(p2d, i, j, p) ==
    [a \in DOMAIN p2d |-> [b \in DOMAIN p2d[a] |->
        LET hits == {l \in 1..Len(p) : i[l] = a /\ j[l] = b}
        IN  IF hits = {} THEN p2d[a][b]
            ELSE p[CHOOSE l \in hits : \A m \in hits : m <= l]]]

\* (a, b) indexes an element of the square array p2d
InShape(p2d, a, b) == a \in DOMAIN p2d /\ b \in DOMAIN p2d

\* the guard of updatecoeffs2d
SkipsUpdate(d) == d < 1

\* Polycoeffs.updatecoeffs2d on instance o: [o |-> instance, raised |-> ...]
updatecoeffs2d(o) ==
    IF SkipsUpdate(o.deg) THEN [o |-> o, raised |-> "none"]
    ELSE IF \/ Len(o.p) > Len(o.i)
            \/ \E l \in 1..Len(o.p) : ~InShape(o.p2d, o.i[l], o.j[l])
         THEN [o |-> o, raised |-> "IndexError"]
         ELSE [o |-> [o EXCEPT !.p2d = FillCoeffs2d(o.p2d, o.i, o.j, o.p)],
               raised |-> "none"]

\* Polycoeffs.__init__(p)
Polycoeffs(p) ==
    LET d  == assigndeg(Len(p))
        ij == ijfromdeg(d)
        o  == [p |-> p, deg |-> d, i |-> ij.i, j |-> ij.j,
               p2d |-> initcoeffs2d(d)]
    IN  updatecoeffs2d(o)

\* Polycoeffs.updatecoeffs(p)
updatecoeffs(o, p) ==
    IF Len(p) < 1 THEN [o |-> o, raised |-> "none"]
    ELSE updatecoeffs2d([o EXCEPT !.p = p])

\* Polycoeffs.getcoeffs2d(p, clobber); the array returned is o.p2d
getcoeffs2d(o, p, clobber) ==
    LET o1 == IF Len(p) > 0 THEN [o EXCEPT !.p = p] ELSE o
        o2 == IF o1.deg < 0 \/ clobber
              THEN LET d == assigndeg(Len(o1.p))
                   IN  [o1 EXCEPT !.deg = d, !.i = ijfromdeg(d).i,
                                  !.j = ijfromdeg(d).j]
              ELSE o1
    IN  updatecoeffs2d(o2)

\* flat coefficient vectors c, c+1, c+2, ... (all entries distinct, nonzero),
\* of no length, of every valid length up to degree MaxDeg and of the
\* invalid length that follows it
CoefStarts == {1, 2}
FlatLens == {0} \cup {Tri(d) + e : d \in 0..MaxDeg, e \in {0, 1}}
FlatVec(m, c) == [k \in 1..m |-> c + k - 1]
FlatVecs == {FlatVec(m, c) : m \in FlatLens, c \in CoefStarts}


(***************************************************************************)
(* Parvec                                                                  *)
(***************************************************************************)

\* pars[a::] for a 0-based a: the entries after the first a
SliceFrom(s, a) == [k \in 1..(Len(s) - a) |-> s[k + a]]
\* pars[0:a]: at most the first a entries
SliceTo(s, a) == [k \in 1..(IF Len(s) < a THEN Len(s) ELSE a) |-> s[k]]

\* degx - int(degx) > 0 for degx = degfromcoeffs(m)
NotWhole(d) == d.excess > 0

\* Parvec.ingestpars(pars) on instance o.  Parvec sets no Verbose attribute,
\* so reading self.Verbose on the rejecting branch raises AttributeError.
ingestpars(o, pars) ==
    IF Len(pars) < 2 THEN [o |-> o, raised |-> "none"]
    ELSE
    LET o1 == [o EXCEPT !.tangentpoint = SliceTo(pars, 2)]
        parsxy == SliceFrom(pars, 2)
        nxy == Len(parsxy)
        imid == nxy \div 2
        parsx == SliceTo(parsxy, imid)
        parsy == SliceFrom(parsxy, imid)
        o2 == [o1 EXCEPT !.inds1d_6term = <<0, 2, 3, 1, imid + 2, imid + 3>>]
    IN  IF Len(pars) < 3 THEN [o |-> o1, raised |-> "none"]
        ELSE IF nxy % 2 > 0 THEN [o |-> o1, raised |-> "none"]
        ELSE IF NotWhole(degfromcoeffs(Len(parsx)))
             THEN IF NotWhole(degfromcoeffs(Len(parsx) + 1))
                  THEN [o |-> o2, raised |-> "AttributeError"]
                  ELSE [o |-> [o2 EXCEPT !.hasxy0 = FALSE,
                                         !.parsx = <<0>> \o parsx,
                                         !.parsy = <<0>> \o parsy],
                        raised |-> "none"]
             ELSE [o |-> [o2 EXCEPT !.parsx = parsx, !.parsy = parsy],
                   raised |-> "none"]

\* Parvec.__init__(pars): hasxy0 = True, initpars(), ingestpars(pars)
Parvec(pars) ==
    ingestpars([hasxy0 |-> TRUE, inds1d_6term |-> <<>>,
                parsx |-> <<>>, parsy |-> <<>>, tangentpoint |-> <<>>], pars)

\* parameter vectors: nothing, a lone entry, or a tangent point followed by
\* a flat vector that ingestpars is to split in two
TangentPoints == {<<35, 35>>, <<10, 20>>}
ParvecRests == {FlatVec(m, c) : m \in 0..(2 * Tri(MaxDeg) + 1), c \in CoefStarts}
ParvecInputs ==
    {<<>>, <<35>>} \cup {tp \o v : tp \in TangentPoints, v \in ParvecRests}

\* np.min, np.max of an array and of a pair
SeqMin(s) == CHOOSE v \in {s[k] : k \in DOMAIN s} : \A k \in DOMAIN s : v <= s[k]
SeqMax(s) == CHOOSE v \in {s[k] : k \in DOMAIN s} : \A k \in DOMAIN s : v >= s[k]
Min2(a, b) == IF a <= b THEN a ELSE b
Max2(a, b) == IF a >= b THEN a ELSE b

(***************************************************************************)
(* Patternmatrix (Polynomial basis)                                        *)
(***************************************************************************)

\* seq[mask]: the entries of seq where the boolean array mask is true
Masked(seq, mask) ==
    LET idx == SelectSeq([l \in 1..Len(mask) |-> l], LAMBDA l : mask[l])
    IN  [k \in 1..Len(idx) |-> seq[idx[k]]]

\* Patternmatrix.setlims
Patternmatrix_setlims(o) ==
    IF o.norescale THEN o
    ELSE [o EXCEPT !.xmin = SeqMin(o.x), !.xmax = SeqMax(o.x),
                   !.ymin = SeqMin(o.y), !.ymax = SeqMax(o.y)]

\* Patternmatrix.rescalexy
Patternmatrix_rescalexy(o) ==
    [o EXCEPT !.xr = [k \in DOMAIN o.x |->
                        Rat(2 * o.x[k] - (o.xmax + o.xmin), o.xmax - o.xmin)],
              !.yr = [k \in DOMAIN o.y |->
                        Rat(2 * o.y[k] - (o.ymax + o.ymin), o.ymax - o.ymin)]]

\* Patternmatrix.buildpowers: np.repeat and np.tile of arange(deg+1)
buildpowers(o) ==
    [o EXCEPT !.ipow = [l \in 1..((o.deg + 1) * (o.deg + 1)) |-> (l - 1) \div (o.deg + 1)],
              !.jpow = [l \in 1..((o.deg + 1) * (o.deg + 1)) |-> (l - 1) % (o.deg + 1)]]

\* Patternmatrix.selectpowers
selectpowers(o) ==
    LET bpow == [l \in DOMAIN o.ipow |-> o.ipow[l] + o.jpow[l] <= o.deg]
    IN  [o EXCEPT !.bpow = bpow,
                  !.isel = Masked(o.ipow, bpow),
                  !.jsel = Masked(o.jpow, bpow),
                  !.lvander = Masked([l \in DOMAIN o.ipow |-> l - 1], bpow)]

\* numpy.polynomial.polynomial.polyvander2d(x, y, (deg, deg)): column
\* (deg+1)*i + j of a point's row is x^i * y^j
polyvander2d(xr, yr, d) ==
    [k \in DOMAIN xr |->
        [c \in 0..((d + 1) * (d + 1) - 1) |->
            RMul(RPow(xr[k], c \div (d + 1)), RPow(yr[k], c % (d + 1)))]]

\* Patternmatrix.buildvander
buildvander(o) ==
    IF Len(o.xr) < 1 THEN o
    ELSE [o EXCEPT !.vander = polyvander2d(o.xr, o.yr, o.deg)]

\* Patternmatrix.initpattern and Patternmatrix.buildpattern: an all-zero
\* (npoints, 2, 2*nbases) array whose row 0 takes the selected columns of
\* the vandermonde array in its first nbases columns, and row 1 in its last
buildpattern(o) ==
    LET nbases == Len(o.lvander)
    IN  [o EXCEPT !.pattern =
            [k \in DOMAIN o.xr |->
                <<[c \in 1..(2 * nbases) |->
                      IF c <= nbases THEN o.vander[k][o.lvander[c]]
                      ELSE RInt(0)],
                  [c \in 1..(2 * nbases) |->
                      IF c > nbases THEN o.vander[k][o.lvander[c - nbases]]
                      ELSE RInt(0)]>>]]

\* the Vandermonde functions of numpy that Patternmatrix.__init__ lists by
\* basis (meths), and Patternmatrix.setmethvander: a kind that is not
\* listed becomes 'Polynomial'
meths ==
    [Polynomial |-> "polyvander2d", Chebyshev |-> "chebvander2d",
     Legendre |-> "legvander2d", Hermite |-> "hermvander2d",
     HermiteE |-> "hermevander2d"]
setmethvander(o) ==
    LET o1 == IF o.kind \in DOMAIN meths THEN o ELSE [o EXCEPT !.kind = "Polynomial"]
    IN  [o1 EXCEPT !.methvander = meths[o1.kind]]

\* Patternmatrix.__init__(deg, x, y, norescale) with kind = 'Polynomial'
Patternmatrix(d, x, y, norescale) ==
    LET o0 == [deg |-> d, x |-> x, y |-> y, norescale |-> norescale,
               kind |-> "Polynomial", methvander |-> "polyvander2d",
               xmin |-> -1, xmax |-> 1, ymin |-> -1, ymax |-> 1,
               xr |-> <<>>, yr |-> <<>>,
               ipow |-> <<>>, jpow |-> <<>>, bpow |-> <<>>,
               isel |-> <<>>, jsel |-> <<>>, lvander |-> <<>>,
               vander |-> <<>>, pattern |-> <<>>]
        o1 == Patternmatrix_rescalexy(Patternmatrix_setlims(o0))
    IN  buildpattern(buildvander(selectpowers(buildpowers(o1))))

\* Patternmatrix.__init__(deg, x, y, kind, norescale).  The Vandermonde
\* matrix is computed here as polyvander2d computes it, which at degree 0
\* is what every basis gives (the constant 1).
PatternmatrixOfKind(d, x, y, kind, norescale) ==
    LET o == Patternmatrix(d, x, y, norescale)
        m == setmethvander([o EXCEPT !.kind = kind])
    IN  [o EXCEPT !.kind = m.kind, !.methvander = m.methvander]

(***************************************************************************)
(* Poly (Polynomial basis)                                                 *)
(***************************************************************************)

\* A limit (xmin, xmax, ymin, ymax) is None or a number: <<>> or <<v>>.
None == <<>>
Some(v) == <<v>>

\* Poly.updatedata(x, y, covxy): the positions are replaced; the covariances
\* only when covxy is an (N,2,2) array with as many planes as there are points
updatedata(o, x, y, covxy) ==
    LET o1 == [o EXCEPT !.x = x, !.y = y]
    IN  IF covxy = <<>> THEN o1
        ELSE IF Len(x) # Len(covxy) THEN o1
        ELSE [o1 EXCEPT !.covxy = covxy]

\* Poly.updatelimits(xmin, xmax, ymin, ymax)
updatelimits(o, lims) ==
    [o EXCEPT !.xmin = lims[1], !.xmax = lims[2],
              !.ymin = lims[3], !.ymax = lims[4]]

\* Poly.setdomain(clobber)
setdomain(o, clobber) ==
    LET nx == Len(o.x)
        ny == Len(o.y)
        xmin == IF o.xmin = None
                THEN (IF nx > 0 THEN SeqMin(o.x) ELSE -1)
                ELSE IF nx > 0 /\ clobber
                     THEN Min2(o.xmin[1], SeqMin(o.x)) ELSE o.xmin[1]
        xmax == IF o.xmax = None
                THEN (IF nx > 0 THEN SeqMax(o.x) ELSE 1)
                ELSE IF nx > 0 /\ clobber
                     THEN Max2(xmin, SeqMax(o.x)) ELSE o.xmax[1]
        ymin == IF o.ymin = None
                THEN (IF ny > 0 THEN SeqMin(o.y) ELSE -1)
                ELSE IF ny > 0 /\ clobber
                     THEN Min2(o.ymin[1], SeqMin(o.y)) ELSE o.ymin[1]
        ymax == IF o.ymax = None
                THEN (IF ny > 0 THEN SeqMax(o.y) ELSE 1)
                ELSE IF ny > 0 /\ clobber
                     THEN Max2(ymin, SeqMax(o.y)) ELSE o.ymax[1]
    IN  [o EXCEPT !.xmin = Some(xmin), !.xmax = Some(xmax),
                  !.ymin = Some(ymin), !.ymax = Some(ymax)]

\* Poly.setjacrescale
JacRescale(o) ==
    <<<<Rat(2, o.xmax[1] - o.xmin[1]), RInt(0)>>,
      <<RInt(0), Rat(2, o.ymax[1] - o.ymin[1])>>>>
setjacrescale(o) == [o EXCEPT !.jacrescale = JacRescale(o)]

\* Poly.rescalexy(x, y): [xr |-> ..., yr |-> ...]
rescalexy(o, x, y) ==
    [xr |-> [k \in DOMAIN x |->
                Rat(2 * x[k] - (o.xmax[1] + o.xmin[1]), o.xmax[1] - o.xmin[1])],
     yr |-> [k \in DOMAIN y |->
                Rat(2 * y[k] - (o.ymax[1] + o.ymin[1]), o.ymax[1] - o.ymin[1])]]

\* Poly.rescalepos
rescalepos(o) ==
    [o EXCEPT !.xr = rescalexy(o, o.x, o.y).xr, !.yr = rescalexy(o, o.x, o.y).yr]

\* Poly.setuppars
setuppars(o) ==
    [o EXCEPT !.pars2x = Polycoeffs(o.parsx).o, !.pars2y = Polycoeffs(o.parsy).o]

\* the value paired with key k in a set of <<key, value>> pairs
ValueAt(P, k) == (CHOOSE p \in P : p[1] = k)[2]

\* one term c[a][b] * x^a * y^b, and the sum of the terms of row a; the
\* terms of a row are computed before they are added up
polyterm(xq, yq, c, a, b) ==
    Only({RMul(RInt(c[a][b]), m) :
          m \in {Only({RMul(px, py) : px \in {RPow(xq, a)},
                                      py \in {RPow(yq, b)}})}})
polyrow(xq, yq, c, a) ==
    Only({RSum([b \in DOMAIN c[a] |-> ValueAt(T, b)], DOMAIN c[a]) :
          T \in {{<<b, polyterm(xq, yq, c, a, b)>> : b \in DOMAIN c[a]}}})

\* numpy.polynomial.polynomial.polyval2d(x, y, c) at one point:
\* the sum of c[a][b] * x^a * y^b
polyval2d(xq, yq, c) ==
    Only({RSum([a \in DOMAIN c |-> ValueAt(R, a)], DOMAIN c) :
          R \in {{<<a, polyrow(xq, yq, c, a)>> : a \in DOMAIN c}}})

\* Poly.propxy(x, y): [xtran |-> ..., ytran |-> ...]
propxy(o, x, y) ==
    IF Len(x) < 1 \/ Len(y) < 1 THEN [xtran |-> <<>>, ytran |-> <<>>]
    ELSE LET r == rescalexy(o, x, y)
         IN  [xtran |-> [k \in DOMAIN x |-> polyval2d(r.xr[k], r.yr[k], o.pars2x.p2d)],
              ytran |-> [k \in DOMAIN x |-> polyval2d(r.xr[k], r.yr[k], o.pars2y.p2d)]]

\* Poly.derivcoeffs(c) for methder = polyder: the derivative along each axis,
\* padded with a zero row (column) at the highest power.  polyder leaves one
\* zero along the axis of a single coefficient, so that the padded
\* derivatives of a 1x1 array are 2x1 and 1x2.
derivcoeffs(c) ==
    IF DOMAIN c = {0}
    THEN [cdx |-> [a \in 0..1 |-> [b \in 0..0 |-> 0]],
          cdy |-> [a \in 0..0 |-> [b \in 0..1 |-> 0]]]
    ELSE
    [cdx |-> [a \in DOMAIN c |-> [b \in DOMAIN c |->
                 IF a + 1 \in DOMAIN c THEN (a + 1) * c[a + 1][b] ELSE 0]],
     cdy |-> [a \in DOMAIN c |-> [b \in DOMAIN c |->
                 IF b + 1 \in DOMAIN c THEN (b + 1) * c[a][b + 1] ELSE 0]]]

\* Poly.setderivcoeffs
setderivcoeffs(o) ==
    [o EXCEPT !.cxx = derivcoeffs(o.pars2x.p2d).cdx,
              !.cxy = derivcoeffs(o.pars2x.p2d).cdy,
              !.cyx = derivcoeffs(o.pars2y.p2d).cdx,
              !.cyy = derivcoeffs(o.pars2y.p2d).cdy]

\* Poly.evaluatejacpoly(xr, yr)
evaluatejacpoly(o, xr, yr) ==
    IF Len(xr) < 1 \/ Len(yr) < 1 THEN <<>>
    ELSE [k \in DOMAIN xr |->
            <<<<polyval2d(xr[k], yr[k], o.cxx), polyval2d(xr[k], yr[k], o.cxy)>>,
              <<polyval2d(xr[k], yr[k], o.cyx), polyval2d(xr[k], yr[k], o.cyy)>>>>]

\* Poly.initjacpoly
initjacpoly(o) ==
    IF Len(o.x) < 1 THEN [o EXCEPT !.jacpoly = <<>>]
    ELSE [o EXCEPT !.jacpoly = [k \in DOMAIN o.x |-> Eye2]]

\* Poly.populatejacpoly
populatejacpoly(o) ==
    IF Len(o.jacpoly) < 1 THEN o
    ELSE LET o1 == setderivcoeffs(o)
         IN  [o1 EXCEPT !.jacpoly = evaluatejacpoly(o1, o1.xr, o1.yr)]

\* the product of the rescaling and polynomial jacobians, as combinejac
\* and propcov both form it: np.matmul(jacrescale, jacpoly)
CombinedJac(jacrescale, jacpoly) ==
    [k \in DOMAIN jacpoly |-> MatMul(jacrescale, jacpoly[k])]

\* Poly.combinejac
combinejac(o) ==
    IF Len(o.jacpoly) < 1 THEN o
    ELSE [o EXCEPT !.jac = CombinedJac(o.jacrescale, o.jacpoly)]

\* Poly.getjacobian
getjacobian(o) ==
    LET o1 == setjacrescale(o)
        o2 == IF Len(o1.jacpoly) < 1 THEN initjacpoly(o1) ELSE o1
    IN  combinejac(populatejacpoly(o2))

\* Poly.initxytran
initxytran(o) == [o EXCEPT !.xytran = [k \in DOMAIN o.x |-> <<0, 0>>]]

\* the domain Poly.updatejacobian works with: the instance's, never re-derived
DomainForUpdate_fromdata(o) ==
    IF Len(o.x) = 0 THEN o
    ELSE [o EXCEPT !.xmin = Some(Min2(@[1], SeqMin(o.x))),
                   !.xmax = Some(Max2(@[1], SeqMax(o.x))),
                   !.ymin = Some(Min2(@[1], SeqMin(o.y))),
                   !.ymax = Some(Max2(@[1], SeqMax(o.y)))]
DomainForUpdate(o) == o

\* Poly.updatejacobian
updatejacobian(o) == initxytran(getjacobian(rescalepos(DomainForUpdate(o))))

\* Poly.ingestdata(x, y, covxy)
ingestdata(o, x, y, covxy) == updatejacobian(updatedata(o, x, y, covxy))

\* the J that Poly.propcov(C, x, y) builds for its points
propcovJ(o, x, y) ==
    LET r == rescalexy(o, x, y)
    IN  CombinedJac(o.jacrescale, evaluatejacpoly(o, r.xr, r.yr))

\* Poly.splitpars(pars)
splitpars(pars) ==
    IF Len(pars) < 2 THEN [parsx |-> <<>>, parsy |-> <<>>]
    ELSE [parsx |-> SliceTo(pars, Len(pars) \div 2),
          parsy |-> SliceFrom(pars, Len(pars) \div 2)]

\* Poly.tranpos
tranpos(o) ==
    [o EXCEPT !.xtran = propxy(o, o.x, o.y).xtran,
              !.ytran = propxy(o, o.x, o.y).ytran]

\* np.matmul of two stacks of 2x2 planes broadcasts a stack of one plane
\* and needs equal counts otherwise; an empty 1-D array has no planes at all
Stackable(A, B) ==
    /\ Len(A) >= 1
    /\ Len(B) >= 1
    /\ (Len(A) = Len(B) \/ Len(A) = 1 \/ Len(B) = 1)
Plane(A, k) == IF Len(A) = 1 THEN A[1] ELSE A[k]
StackLen(A, B) == IF Len(A) >= Len(B) THEN Len(A) ELSE Len(B)

\* Poly.propcov(C, x, y): [v |-> the array returned, raised |-> ...]
propcov(o, C, x, y) ==
    LET r == rescalexy(o, x, y)
        Jpoly == evaluatejacpoly(o, r.xr, r.yr)
    IN  IF Len(Jpoly) < 1 \/ ~Stackable(C, Jpoly)
        THEN [v |-> <<>>, raised |-> "ValueError"]
        ELSE LET J == CombinedJac(o.jacrescale, Jpoly)
             IN  [v |-> [k \in 1..StackLen(C, J) |->
                            MatMul(Plane(J, k),
                                   MatMul(RMat(Plane(C, k)),
                                          Transpose(Plane(J, k))))],
                  raised |-> "none"]

\* Poly.trancov: [o |-> instance, raised |-> ...]
trancov(o) ==
    LET o1 == IF Len(o.jac) < 1 THEN getjacobian(o) ELSE o
    IN  IF Len(o1.covxy) < 1 THEN [o |-> o1, raised |-> "none"]
        ELSE LET r == propcov(o1, o1.covxy, o1.x, o1.y)
             IN  IF r.raised # "none" THEN [o |-> o1, raised |-> r.raised]
                 ELSE [o |-> [o1 EXCEPT !.covtran = r.v], raised |-> "none"]

\* Poly.updatetransf(pars): [o |-> instance, raised |-> ...]
updatetransf(o, pars) ==
    LET sp == splitpars(pars)
    IN  IF Len(sp.parsx) < 1 THEN [o |-> o, raised |-> "none"]
        ELSE
          LET o1 == [o EXCEPT !.parsx = sp.parsx, !.parsy = sp.parsy]
              o2 == IF o1.pars2x.deg < 0 THEN setuppars(o1) ELSE o1
              ux == updatecoeffs(o2.pars2x, sp.parsx)
              o3 == [o2 EXCEPT !.pars2x = ux.o]
              uy == updatecoeffs(o3.pars2y, sp.parsy)
              o4 == [o3 EXCEPT !.pars2y = uy.o]
          IN  IF ux.raised # "none" THEN [o |-> o3, raised |-> ux.raised]
              ELSE IF uy.raised # "none" THEN [o |-> o4, raised |-> uy.raised]
              ELSE [o |-> combinejac(populatejacpoly(setderivcoeffs(o4))),
                    raised |-> "none"]

\* Poly.__init__(x, y, covxy, parsx, parsy, xmin, xmax, ymin, ymax) with
\* kindpoly = 'Polynomial' and checkparsy = False
Poly(x, y, covxy, parsx, parsy, lims) ==
    LET o0 == [x |-> <<>>, y |-> <<>>, covxy |-> <<>>,
               parsx |-> parsx, parsy |-> parsy,
               xmin |-> None, xmax |-> None, ymin |-> None, ymax |-> None,
               cxx |-> <<>>, cxy |-> <<>>, cyx |-> <<>>, cyy |-> <<>>,
               jacrescale |-> Eye2, xr |-> <<>>, yr |-> <<>>,
               pars2x |-> Polycoeffs(<<>>).o, pars2y |-> Polycoeffs(<<>>).o,
               kind |-> "Polynomial",
               methval2d |-> "polyval2d", methder |-> "polyder",
               jacpoly |-> <<>>, jac |-> <<>>,
               xtran |-> <<>>, ytran |-> <<>>, covtran |-> <<>>,
               xytran |-> <<>>]
        o1 == updatelimits(updatedata(o0, x, y, covxy), lims)
        o2 == setuppars(setjacrescale(setdomain(o1, FALSE)))
    IN  updatejacobian(o2)

\* Poly() with no arguments
AllNone == <<None, None, None, None>>
BlankPoly == Poly(<<>>, <<>>, <<>>, <<>>, <<>>, AllNone)

\* sample positions: the first n sample points, shifted by s
SampleX == <<0, 3, 1, 2>>
SampleY == <<1, 2, 4, 0>>
DataX(n, s) == [k \in 1..n |-> SampleX[k] + s]
DataY(n, s) == [k \in 1..n |-> SampleY[k] + 2 * s]

\* sample covariances: none, one per point, or one too many
SampleCov == <<<<4, 1>>, <<1, 9>>>>
CovMatching(n) == {[k \in 1..m |-> SampleCov] : m \in {0, n}}
CovInputs(n) == {[k \in 1..m |-> SampleCov] : m \in {0, n, n + 1}}

\* sample coefficients: abutted x and y vectors of one degree
PolyPars == {FlatVec(2 * Tri(d), 1) : d \in 1..MaxDeg}

\* sample domains (xmin, xmax, ymin, ymax): one square, one not
PolyDomains == {<<-1, 1, -1, 1>>, <<0, 4, 0, 2>>}
Limits(d) == <<Some(d[1]), Some(d[2]), Some(d[3]), Some(d[4])>>
Spans(v) == Len(v) > 0 /\ SeqMin(v) < SeqMax(v)

(***************************************************************************)
(* Tan2equ and Equ2tan.  Angles and the trigonometric entries of the       *)
(* Jacobians are kept as terms: an angle is its value with the conversion  *)
(* factor applied to it, an entry is its name with the angles it is        *)
(* computed from.                                                          *)
(***************************************************************************)

\* Tan2equ.setconversion, Equ2tan.setconversion
setconversion(o) ==
    [o EXCEPT !.conv2rad = IF o.degrees THEN "pi/180" ELSE "1"]

\* an angle times conv2rad
Radians(o, v) == <<v, o.conv2rad>>

\* Tan2equ.evaluatejac(x, y): the entries are functions of xi, eta, delta0
Tan2equ_evaluatejac(o, x, y) ==
    IF Len(x) < 1 \/ Len(y) < 1 THEN <<>>
    ELSE [k \in DOMAIN x |->
            LET at == [xi |-> Radians(o, x[k]), eta |-> Radians(o, y[k]),
                       delta0 |-> Radians(o, o.pars[2])]
            IN  <<<<[f |-> "J_ax", at |-> at], [f |-> "J_ay", at |-> at]>>,
                  <<[f |-> "J_dx", at |-> at], [f |-> "J_dy", at |-> at]>>>>]

\* Equ2tan.evaluatejac(x, y): the entries are functions of alpha, delta,
\* alpha0, delta0
Equ2tan_evaluatejac(o, x, y) ==
    IF Len(x) < 1 \/ Len(y) < 1 THEN <<>>
    ELSE [k \in DOMAIN x |->
            LET at == [alpha |-> Radians(o, x[k]), delta |-> Radians(o, y[k]),
                       alpha0 |-> Radians(o, o.pars[1]),
                       delta0 |-> Radians(o, o.pars[2])]
            IN  <<<<[f |-> "J_xia", at |-> at], [f |-> "J_xid", at |-> at]>>,
                  <<[f |-> "J_etaa", at |-> at], [f |-> "J_etad", at |-> at]>>>>]

\* Tan2equ.setjacobian, Equ2tan.setjacobian
Tan2equ_setjacobian(o) == [o EXCEPT !.jac = Tan2equ_evaluatejac(o, o.x, o.y)]
Equ2tan_setjacobian(o) == [o EXCEPT !.jac = Equ2tan_evaluatejac(o, o.x, o.y)]

\* Tan2equ.initjac, Equ2tan.initjac: the identity, or one identity a point
initjac(o) ==
    IF Len(o.x) < 1 THEN [o EXCEPT !.jac = Eye2]
    ELSE [o EXCEPT !.jac = [k \in DOMAIN o.x |-> Eye2]]

\* Tan2equ.initxytran, Equ2tan.initxytran
Gnomonic_initxytran(o) == [o EXCEPT !.xytran = [k \in DOMAIN o.x |-> <<0, 0>>]]

\* Tan2equ.__init__(xi, eta, covxieta, pars, degrees)
Tan2equ(xi, eta, covxieta, pars, degrees) ==
    LET o0 == [cls |-> "Tan2equ", x |-> xi, y |-> eta, covxy |-> covxieta,
               pars |-> pars, degrees |-> degrees, conv2rad |-> "1",
               jac |-> Eye2, xtran |-> <<>>, ytran |-> <<>>,
               covtran |-> <<>>, covxytran |-> <<>>, xytran |-> <<>>]
    IN  Gnomonic_initxytran(Tan2equ_setjacobian(initjac(setconversion(o0))))

\* Equ2tan.__init__(x, y, covxy, pars, degrees)
Equ2tan(x, y, covxy, pars, degrees) ==
    LET o0 == [cls |-> "Equ2tan", x |-> x, y |-> y, covxy |-> covxy,
               pars |-> pars, degrees |-> degrees, conv2rad |-> "1",
               jac |-> Eye2, xtran |-> <<>>, ytran |-> <<>>,
               covtran |-> <<>>, covxytran |-> <<>>, xytran |-> <<>>]
    IN  Gnomonic_initxytran(Equ2tan_setjacobian(initjac(setconversion(o0))))

\* Tan2equ.updatedata, Equ2tan.updatedata(x, y, covxy): the positions are
\* replaced; the covariances only when there is one plane a point
Gnomonic_updatedata(o, x, y, covxy) ==
    LET o1 == [o EXCEPT !.x = x, !.y = y]
    IN  IF covxy = <<>> THEN o1
        ELSE IF Len(x) # Len(covxy) THEN o1
        ELSE [o1 EXCEPT !.covxy = covxy]

\* Tan2equ.updatejacobian
Tan2equ_updatejacobian(o) == Tan2equ_setjacobian(o)

\* Tan2equ.updatetransf(pars)
Tan2equ_updatetransf_nojac(o, pars) ==
    IF Len(pars) # 2 THEN o ELSE [o EXCEPT !.pars = pars]
Tan2equ_updatetransf(o, pars) ==
    IF Len(pars) # 2 THEN o
    ELSE Tan2equ_setjacobian([o EXCEPT !.pars = pars])

\* Equ2tan.updatetransf(pars)
Equ2tan_updatetransf(o, pars) ==
    IF Len(pars) # 2 THEN o
    ELSE Equ2tan_setjacobian([o EXCEPT !.pars = pars])

\* Tan2equ.propxy(x, y): the sky positions as terms of the angles and the
\* tangent point they are computed from, converted back from radians
Tan2equ_propxy(o, x, y) ==
    IF Len(x) < 1 \/ Len(y) < 1 THEN [xtran |-> <<>>, ytran |-> <<>>]
    ELSE LET at(k) == [xi |-> Radians(o, x[k]), eta |-> Radians(o, y[k]),
                       alpha0 |-> Radians(o, o.pars[1]),
                       delta0 |-> Radians(o, o.pars[2])]
         IN  [xtran |-> [k \in DOMAIN x |->
                            [f |-> "alphaf", at |-> at(k), per |-> o.conv2rad]],
              ytran |-> [k \in DOMAIN x |->
                            [f |-> "deltaf", at |-> at(k), per |-> o.conv2rad]]]

\* Equ2tan.propxy(x, y)
Equ2tan_propxy(o, x, y) ==
    IF Len(x) < 1 \/ Len(y) < 1 THEN [xtran |-> <<>>, ytran |-> <<>>]
    ELSE LET at(k) == [alpha |-> Radians(o, x[k]), delta |-> Radians(o, y[k]),
                       alpha0 |-> Radians(o, o.pars[1]),
                       delta0 |-> Radians(o, o.pars[2])]
         IN  [xtran |-> [k \in DOMAIN x |->
                            [f |-> "xi", at |-> at(k), per |-> o.conv2rad]],
              ytran |-> [k \in DOMAIN x |->
                            [f |-> "eta", at |-> at(k), per |-> o.conv2rad]]]

\* Tan2equ.tranpos, Equ2tan.tranpos
Tan2equ_tranpos(o) ==
    [o EXCEPT !.xtran = Tan2equ_propxy(o, o.x, o.y).xtran,
              !.ytran = Tan2equ_propxy(o, o.x, o.y).ytran]
Equ2tan_tranpos(o) ==
    [o EXCEPT !.xtran = Equ2tan_propxy(o, o.x, o.y).xtran,
              !.ytran = Equ2tan_propxy(o, o.x, o.y).ytran]

\* np.matmul(J, np.matmul(C, Jt)) for a stack J of Jacobian terms: plane k
\* is the term J[k] * C[k] * J[k]^T
JCJt(J, C) ==
    [k \in 1..StackLen(C, J) |->
        [f |-> "J*C*Jt", J |-> Plane(J, k), C |-> Plane(C, k)]]

\* the 2x2 array that the term J * C * J^T stands for, with the entries of
\* J as indeterminates: entry (r, c) of np.matmul(J, np.matmul(C, Jt)) is
\* the sum over k, l of J[r][k] * C[k][l] * Jt[l][c], kept as the
\* coefficient of each product of two entries of J
TermMatrix(t) ==
    LET Jt == Transpose(t.J)
        Pairs == {<<k, l>> : k \in 1..2, l \in 1..2}
        Mono(r, c, kl) == {t.J[r][kl[1]], Jt[kl[2]][c]}
        Entry(r, c) ==
            [m \in {Mono(r, c, kl) : kl \in Pairs} |->
                LET S == {kl \in Pairs : Mono(r, c, kl) = m}
                IN  RSum([kl \in S |-> RInt(t.C[kl[1]][kl[2]])], S)]
    IN  [r \in 1..2 |-> [c \in 1..2 |-> Entry(r, c)]]

\* Tan2equ.propcov(C, x, y): the guard reads the instance's x, not the
\* argument.  [v |-> the array returned, raised |-> ...]
Tan2equ_propcov(o, C, x, y) ==
    IF Len(o.x) < 1 \/ Len(y) < 1 THEN [v |-> <<>>, raised |-> "none"]
    ELSE IF Len(x) < 1 \/ ~Stackable(C, Tan2equ_evaluatejac(o, x, y))
         THEN [v |-> <<>>, raised |-> "ValueError"]
         ELSE [v |-> JCJt(Tan2equ_evaluatejac(o, x, y), C), raised |-> "none"]

\* Equ2tan.propcov(C, x, y)
Equ2tan_propcov(o, C, x, y) ==
    IF Len(x) < 1 \/ Len(y) < 1 THEN [v |-> <<>>, raised |-> "none"]
    ELSE IF ~Stackable(C, Equ2tan_evaluatejac(o, x, y))
         THEN [v |-> <<>>, raised |-> "ValueError"]
         ELSE [v |-> JCJt(Equ2tan_evaluatejac(o, x, y), C), raised |-> "none"]

\* Tan2equ.trancov: [o |-> instance, raised |-> ...]
Tan2equ_trancov(o) ==
    LET r == Tan2equ_propcov(o, o.covxy, o.x, o.y)
    IN  IF r.raised # "none" THEN [o |-> o, raised |-> r.raised]
        ELSE [o |-> [o EXCEPT !.covtran = r.v], raised |-> "none"]

\* Equ2tan.trancov: [o |-> instance, raised |-> ...]
Equ2tan_trancov(o) ==
    LET o1 == IF Len(o.jac) < 1 THEN Equ2tan_setjacobian(o) ELSE o
        r == Equ2tan_propcov(o1, o1.covxy, o1.x, o1.y)
    IN  IF r.raised # "none" THEN [o |-> o1, raised |-> r.raised]
        ELSE [o |-> [o1 EXCEPT !.covtran = r.v], raised |-> "none"]

\* no gnomonic transformation yet
NoGnomonic ==
    [cls |-> "none", x |-> <<>>, y |-> <<>>, covxy |-> <<>>, pars |-> <<>>,
     degrees |-> TRUE, conv2rad |-> "1", jac |-> <<>>, xtran |-> <<>>,
     ytran |-> <<>>, covtran |-> <<>>, covxytran |-> <<>>, xytran |-> <<>>]

\* vectors offered as a new tangent point: too short, right, too long
NewPars == {<<>>, <<35>>, <<35, 35, 35>>} \cup TangentPoints

(***************************************************************************)
(* xy2equ and TangentPlane: a Poly chained with, or set beside, a gnomonic *)
(* transformation.  A constructor or method that raises leaves             *)
(* [o |-> the instance as far as it got, raised |-> the exception].        *)
(***************************************************************************)

\* the bases Poly supports (polysallowed), and Poly.checkpolysupported
PolysAllowed == {"Polynomial", "Chebyshev", "Legendre", "Hermite", "HermiteE"}
\* Poly.checkpolysupported falling back to the first listed basis that is
\* not Polynomial
checkpolysupported_cheb(kind) ==
    IF kind \in PolysAllowed THEN kind ELSE "Chebyshev"
checkpolysupported(kind) == IF kind \in PolysAllowed THEN kind ELSE "Polynomial"

\* the evaluation and derivative functions of numpy that Poly.__init__
\* lists by basis (methval2dlist, methderlist), and Poly.setmethods
methval2dlist ==
    [Polynomial |-> "polyval2d", Chebyshev |-> "chebval2d",
     Legendre |-> "legval2d", Hermite |-> "hermval2d",
     HermiteE |-> "hermeval2d"]
methderlist ==
    [Polynomial |-> "polyder", Chebyshev |-> "chebder",
     Legendre |-> "legder", Hermite |-> "hermder", HermiteE |-> "hermeder"]
setmethods(o) ==
    [o EXCEPT !.methval2d = methval2dlist[o.kind],
              !.methder = methderlist[o.kind]]

\* the keyword arguments Poly.__init__ declares, and the ones that
\* xy2equ.__init__ and TangentPlane.__init__ pass to it
PolyKeywords ==
    {"x", "y", "covxy", "parsx", "parsy", "degrees", "kindpoly", "Verbose",
     "xmin", "xmax", "ymin", "ymax", "xisxi", "checkparsy", "radec", "covradec"}
ChainPolyKeywords ==
    {"kind", "checkparsy", "Verbose", "xmin", "xmax", "ymin", "ymax"}

\* a call Poly(x, y, covxy, parsx, parsy, **keywords): Python raises
\* TypeError, before the body runs, on a keyword the signature lacks.  The
\* values are computed here as the Polynomial basis computes them, which
\* at degree 0 is what every basis gives.
PolyCall(keywords, x, y, covxy, parsx, parsy, kindpoly, lims) ==
    IF ~(keywords \subseteq PolyKeywords)
    THEN [o |-> BlankPoly, raised |-> "TypeError"]
    ELSE [o |-> setmethods([Poly(x, y, covxy, parsx, parsy, lims)
                               EXCEPT !.kind = checkpolysupported(kindpoly)]),
          raised |-> "none"]

\* no chain: what is left when a constructor raises
NoChain ==
    [cls |-> "none", PV |-> Parvec(<<>>).o,
     parsx |-> <<>>, parsy |-> <<>>, tangentpoint |-> <<>>,
     polyhasxy0 |-> TRUE, inds1d_6term |-> <<>>,
     x |-> <<>>, y |-> <<>>, covxy |-> <<>>,
     xy2tp |-> BlankPoly, tp2equ |-> NoGnomonic, eq2tp |-> NoGnomonic,
     xtran |-> <<>>, ytran |-> <<>>, covtran |-> <<>>,
     xytran |-> <<>>, covxytran |-> <<>>,
     xtarg |-> <<>>, ytarg |-> <<>>, xytarg |-> <<>>, covtarg |-> <<>>]

\* xy2equ.updatepars(pars): a new Parvec, whose fields are copied
updatepars(c, pars) ==
    LET PV == Parvec(pars)
    IN  IF PV.raised # "none" THEN [o |-> c, raised |-> PV.raised]
        ELSE [o |-> [c EXCEPT !.parsx = PV.o.parsx, !.parsy = PV.o.parsy,
                              !.tangentpoint = PV.o.tangentpoint,
                              !.polyhasxy0 = PV.o.hasxy0,
                              !.inds1d_6term = PV.o.inds1d_6term],
              raised |-> "none"]

\* xy2equ.__init__(x, y, covxy, pars, kindpoly, xmin, xmax, ymin, ymax)
xy2equ(x, y, covxy, pars, kindpoly, lims) ==
    Only({IF c0.raised # "none" THEN [o |-> NoChain, raised |-> c0.raised]
          ELSE Only({LET c1 == [c0.o EXCEPT !.x = x, !.y = y, !.covxy = covxy]
                     IN  IF P.raised # "none"
                         THEN [o |-> NoChain, raised |-> P.raised]
                         ELSE [o |-> [c1 EXCEPT
                                 !.xy2tp = P.o,
                                 !.tp2equ = Tan2equ(<<>>, <<>>, <<>>,
                                                    c1.tangentpoint, TRUE),
                                 !.covxytran =
                                    [k \in DOMAIN P.o.covxy |-> Zeros2d(2)],
                                 !.xytran = P.o.xytran],
                               raised |-> "none"] :
                     P \in {PolyCall(ChainPolyKeywords, x, y, covxy,
                                     c0.o.parsx, c0.o.parsy, kindpoly, lims)}}) :
          c0 \in {updatepars([NoChain EXCEPT !.cls = "xy2equ"], pars)}})

\* xy2equ.tranpos
xy2equ_tranpos(c) ==
    LET P == tranpos(c.xy2tp)
        T == Tan2equ_tranpos([c.tp2equ EXCEPT !.x = P.xtran, !.y = P.ytran])
    IN  [c EXCEPT !.xy2tp = P, !.tp2equ = T,
                  !.xtran = T.xtran, !.ytran = T.ytran]

\* xy2equ.trancov: [o |-> instance, raised |-> ...]
xy2equ_trancov(c) ==
    LET P0 == tranpos(c.xy2tp)
        T0 == [c.tp2equ EXCEPT !.x = P0.xtran, !.y = P0.ytran]
        P1 == trancov(P0)
        T1 == [T0 EXCEPT !.covxy = P1.o.covtran]
        T2 == Tan2equ_trancov(T1)
    IN  IF P1.raised # "none"
        THEN [o |-> [c EXCEPT !.xy2tp = P1.o, !.tp2equ = T0], raised |-> P1.raised]
        ELSE IF T2.raised # "none"
        THEN [o |-> [c EXCEPT !.xy2tp = P1.o, !.tp2equ = T2.o], raised |-> T2.raised]
        ELSE [o |-> [c EXCEPT !.xy2tp = P1.o, !.tp2equ = T2.o,
                              !.covtran = T2.o.covtran],
              raised |-> "none"]

\* xy2equ.updatetransf(pars): [o |-> instance, raised |-> ...]
xy2equ_updatetransf(c, pars) ==
    IF Len(pars) < 1 THEN [o |-> c, raised |-> "none"]
    ELSE
      LET c0 == updatepars(c, pars)
          U  == updatetransf(c0.o.xy2tp, c0.o.parsx \o c0.o.parsy)
          P  == tranpos(U.o)
          T0 == [c0.o.tp2equ EXCEPT !.x = P.xtran, !.y = P.ytran]
          T1 == Tan2equ_updatetransf(T0, c0.o.tangentpoint)
      IN  IF c0.raised # "none" THEN c0
          ELSE IF U.raised # "none"
          THEN [o |-> [c0.o EXCEPT !.xy2tp = U.o], raised |-> U.raised]
          ELSE [o |-> [c0.o EXCEPT !.xy2tp = P, !.tp2equ = T1],
                raised |-> "none"]

\* a column of an (N,2) array takes an array of N entries, or of one
FitsColumn(dst, src) == Len(src) = Len(dst) \/ Len(src) = 1
Columns(dst, a, b) ==
    [k \in DOMAIN dst |->
        <<IF Len(a) = 1 THEN a[1] ELSE a[k], IF Len(b) = 1 THEN b[1] ELSE b[k]>>]

\* TangentPlane.tranpos: [o |-> instance, raised |-> ...]
TangentPlane_tranpos(c) ==
    Only({IF ~FitsColumn(c1.xytran, c1.xtran) THEN [o |-> c1, raised |-> "ValueError"]
          ELSE Only({IF ~FitsColumn(c2.xytarg, c2.xtarg)
                     THEN [o |-> c2, raised |-> "ValueError"]
                     ELSE [o |-> [c2 EXCEPT !.xytarg =
                                      Columns(c2.xytarg, c2.xtarg, c2.ytarg)],
                           raised |-> "none"] :
                     c2 \in {[c1 EXCEPT !.xytran =
                                Columns(c1.xytran, c1.xtran, c1.ytran)]}}) :
          c1 \in {[c EXCEPT !.xy2tp = P, !.eq2tp = E,
                            !.xtran = P.xtran, !.ytran = P.ytran,
                            !.xtarg = E.xtran, !.ytarg = E.ytran] :
                  P \in {tranpos(c.xy2tp)}, E \in {Equ2tan_tranpos(c.eq2tp)}}})

\* TangentPlane.trancov: [o |-> instance, raised |-> ...]
TangentPlane_trancov(c) ==
    Only({IF P.raised # "none"
          THEN [o |-> [c EXCEPT !.xy2tp = P.o], raised |-> P.raised]
          ELSE Only({IF E.raised # "none"
                     THEN [o |-> [c EXCEPT !.xy2tp = P.o, !.eq2tp = E.o],
                           raised |-> E.raised]
                     ELSE [o |-> [c EXCEPT !.xy2tp = P.o, !.eq2tp = E.o,
                                           !.covtran = P.o.covtran,
                                           !.covtarg = E.o.covtran],
                           raised |-> "none"] :
                     E \in {Equ2tan_trancov(c.eq2tp)}}) :
          P \in {trancov(c.xy2tp)}})

\* TangentPlane.propagate: [o |-> instance, raised |-> ...]
TangentPlane_propagate(c) ==
    Only({IF r.raised # "none" THEN r ELSE TangentPlane_trancov(r.o) :
          r \in {TangentPlane_tranpos(c)}})

\* TangentPlane.__init__(x, y, covxy, pars, kindpoly, radec, covradec,
\* xmin, xmax, ymin, ymax); radec is an (N,2) array, here its two columns
TangentPlane(x, y, covxy, pars, kindpoly, ra, dec, covradec, lims) ==
    Only({IF PV.raised # "none" THEN [o |-> NoChain, raised |-> PV.raised]
          ELSE Only({
            IF P.raised # "none" THEN [o |-> NoChain, raised |-> P.raised]
            ELSE Only({IF r.raised # "none"
                       THEN [o |-> NoChain, raised |-> r.raised]
                       ELSE r :
                       r \in {TangentPlane_propagate(
                          [NoChain EXCEPT
                             !.cls = "TangentPlane", !.PV = PV.o,
                             !.polyhasxy0 = PV.o.hasxy0,
                             !.xy2tp = P.o,
                             !.eq2tp = Equ2tan(ra, dec, covradec,
                                               PV.o.tangentpoint, TRUE),
                             !.inds1d_6term = PV.o.inds1d_6term,
                             !.x = x, !.y = y, !.covxy = covxy,
                             !.xytran = [k \in DOMAIN x |-> <<0, 0>>],
                             !.xytarg = [k \in DOMAIN x |-> <<0, 0>>]])}}) :
            P \in {PolyCall(ChainPolyKeywords, x, y, covxy,
                            PV.o.parsx, PV.o.parsy, kindpoly, lims)}}) :
          PV \in {Parvec(pars)}})

\* TangentPlane.updatetransf(pars): [o |-> instance, raised |-> ...]
TangentPlane_updatetransf(c, pars) ==
    IF Len(pars) < 1 THEN [o |-> c, raised |-> "none"]
    ELSE
      LET I  == ingestpars(c.PV, pars)
          c1 == [c EXCEPT !.PV = I.o]
          c2 == [c1 EXCEPT !.polyhasxy0 = I.o.hasxy0]
          U  == updatetransf(c2.xy2tp, I.o.parsx \o I.o.parsy)
          c3 == [c2 EXCEPT !.xy2tp = U.o]
      IN  IF I.raised # "none" THEN [o |-> c1, raised |-> I.raised]
          ELSE IF U.raised # "none" THEN [o |-> c3, raised |-> U.raised]
          ELSE [o |-> [c3 EXCEPT !.eq2tp =
                          Equ2tan_updatetransf(c3.eq2tp, I.o.tangentpoint)],
                raised |-> "none"]

(***************************************************************************)
(* Polynom: the hand-expanded polynomial transformation.  Positions and    *)
(* coefficients are integers here, so that every sum is exact.             *)
(***************************************************************************)
\* integer power a**n
RECURSIVE IPow(_, _)
IPow(a, n) == IF n = 0 THEN 1 ELSE a * IPow(a, n - 1)

\* pars[k] with Python's 0-based index
Par(pars, k) == pars[k + 1]

\* polyval2d's terms with the first-order coefficients of x and y exchanged
PolyvalBlock_yx(b, pars, x, y) ==
    CASE b = 0 -> Par(pars, 0)
      [] b = 1 -> y * Par(pars, 1) + x * Par(pars, 2)
      [] b = 2 -> IPow(x, 2) * Par(pars, 3) + x * y * Par(pars, 4)
                  + IPow(y, 2) * Par(pars, 5)
      [] b = 3 -> IPow(x, 3) * Par(pars, 6) + IPow(x, 2) * y * Par(pars, 7)
                  + x * IPow(y, 2) * Par(pars, 8) + IPow(y, 3) * Par(pars, 9)
      [] b = 4 -> IPow(x, 4) * Par(pars, 10) + IPow(x, 3) * y * Par(pars, 11)
                  + IPow(x, 2) * IPow(y, 2) * Par(pars, 12)
                  + x * IPow(y, 3) * Par(pars, 13) + IPow(y, 4) * Par(pars, 14)
      [] b = 5 -> IPow(x, 5) * Par(pars, 15) + IPow(x, 4) * y * Par(pars, 16)
                  + IPow(x, 3) * IPow(y, 2) * Par(pars, 17)
                  + IPow(x, 2) * IPow(y, 3) * Par(pars, 18)
                  + x * IPow(y, 4) * Par(pars, 19) + IPow(y, 5) * Par(pars, 20)

\* the terms one block of polyval2d adds to z at the point (x, y)
PolyvalBlock(b, pars, x, y) ==
    CASE b = 0 -> Par(pars, 0)
      [] b = 1 -> x * Par(pars, 1) + y * Par(pars, 2)
      [] b = 2 -> IPow(x, 2) * Par(pars, 3) + x * y * Par(pars, 4)
                  + IPow(y, 2) * Par(pars, 5)
      [] b = 3 -> IPow(x, 3) * Par(pars, 6) + IPow(x, 2) * y * Par(pars, 7)
                  + x * IPow(y, 2) * Par(pars, 8) + IPow(y, 3) * Par(pars, 9)
      [] b = 4 -> IPow(x, 4) * Par(pars, 10) + IPow(x, 3) * y * Par(pars, 11)
                  + IPow(x, 2) * IPow(y, 2) * Par(pars, 12)
                  + x * IPow(y, 3) * Par(pars, 13) + IPow(y, 4) * Par(pars, 14)
      [] b = 5 -> IPow(x, 5) * Par(pars, 15) + IPow(x, 4) * y * Par(pars, 16)
                  + IPow(x, 3) * IPow(y, 2) * Par(pars, 17)
                  + IPow(x, 2) * IPow(y, 3) * Par(pars, 18)
                  + x * IPow(y, 4) * Par(pars, 19) + IPow(y, 5) * Par(pars, 20)

\* a third-order x-derivative that forgets the factor of the cube's exponent
Jac2dBlockX_nofactor(b, pars, x, y) ==
    CASE b = 1 -> Par(pars, 1)
      [] b = 2 -> 2 * x * Par(pars, 3) + y * Par(pars, 4)
      [] b = 3 -> IPow(x, 2) * Par(pars, 6) + 2 * x * y * Par(pars, 7)
                  + IPow(y, 2) * Par(pars, 8)
      [] b = 4 -> 4 * IPow(x, 3) * Par(pars, 10)
                  + 3 * IPow(x, 2) * y * Par(pars, 11)
                  + 2 * x * IPow(y, 2) * Par(pars, 12)
                  + IPow(y, 3) * Par(pars, 13)
      [] b = 5 -> 5 * IPow(x, 4) * Par(pars, 15)
                  + 4 * IPow(x, 3) * y * Par(pars, 16)
                  + 3 * IPow(x, 2) * IPow(y, 2) * Par(pars, 17)
                  + 2 * x * IPow(y, 3) * Par(pars, 18)
                  + IPow(y, 4) * Par(pars, 19)

\* the terms one block of jac2d adds to zx at the point (x, y)
Jac2dBlockX(b, pars, x, y) ==
    CASE b = 1 -> Par(pars, 1)
      [] b = 2 -> 2 * x * Par(pars, 3) + y * Par(pars, 4)
      [] b = 3 -> 3 * IPow(x, 2) * Par(pars, 6) + 2 * x * y * Par(pars, 7)
                  + IPow(y, 2) * Par(pars, 8)
      [] b = 4 -> 4 * IPow(x, 3) * Par(pars, 10)
                  + 3 * IPow(x, 2) * y * Par(pars, 11)
                  + 2 * x * IPow(y, 2) * Par(pars, 12)
                  + IPow(y, 3) * Par(pars, 13)
      [] b = 5 -> 5 * IPow(x, 4) * Par(pars, 15)
                  + 4 * IPow(x, 3) * y * Par(pars, 16)
                  + 3 * IPow(x, 2) * IPow(y, 2) * Par(pars, 17)
                  + 2 * x * IPow(y, 3) * Par(pars, 18)
                  + IPow(y, 4) * Par(pars, 19)

\* the terms one block of jac2d adds to zy at the point (x, y)
Jac2dBlockY(b, pars, x, y) ==
    CASE b = 1 -> Par(pars, 2)
      [] b = 2 -> x * Par(pars, 4) + 2 * y * Par(pars, 5)
      [] b = 3 -> IPow(x, 2) * Par(pars, 7) + 2 * x * y * Par(pars, 8)
                  + 3 * IPow(y, 2) * Par(pars, 9)
      [] b = 4 -> IPow(x, 3) * Par(pars, 11)
                  + 2 * IPow(x, 2) * y * Par(pars, 12)
                  + 3 * x * IPow(y, 2) * Par(pars, 13)
                  + 4 * IPow(y, 3) * Par(pars, 14)
      [] b = 5 -> IPow(x, 4) * Par(pars, 16)
                  + 2 * IPow(x, 3) * y * Par(pars, 17)
                  + 3 * IPow(x, 2) * IPow(y, 2) * Par(pars, 18)
                  + 4 * x * IPow(y, 3) * Par(pars, 19)
                  + 5 * IPow(y, 4) * Par(pars, 20)

\* the highest block a vector of n coefficients reaches before a return
PolynomOrder == 5
BlocksOf(n) ==
    IF n < 2 THEN 0 ELSE IF n < 6 THEN 1 ELSE IF n < 10 THEN 2
    ELSE IF n < 15 THEN 3 ELSE IF n < 21 THEN 4 ELSE PolynomOrder

\* z at the point (x, y) after the blocks 0..b
RECURSIVE PolyvalAt(_, _, _, _)
PolyvalAt(b, pars, x, y) ==
    IF b = 0 THEN PolyvalBlock(0, pars, x, y)
    ELSE PolyvalAt(b - 1, pars, x, y) + PolyvalBlock(b, pars, x, y)

\* zx and zy at the point (x, y) after the blocks 1..b
RECURSIVE Jac2dAtX(_, _, _, _)
Jac2dAtX(b, pars, x, y) ==
    IF b = 0 THEN 0
    ELSE Jac2dAtX(b - 1, pars, x, y) + Jac2dBlockX(b, pars, x, y)

RECURSIVE Jac2dAtY(_, _, _, _)
Jac2dAtY(b, pars, x, y) ==
    IF b = 0 THEN 0
    ELSE Jac2dAtY(b - 1, pars, x, y) + Jac2dBlockY(b, pars, x, y)

\* Polynom.polyval2d(pars): pars[0] of an empty vector and pars[2] of a
\* vector of two are out of range
Polynom_polyval2d(o, pars) ==
    IF Len(pars) = 0 \/ Len(pars) = 2
    THEN [v |-> <<>>, raised |-> "IndexError"]
    ELSE [v |-> [k \in DOMAIN o.x |->
                   PolyvalAt(BlocksOf(Len(pars)), pars, o.x[k], o.y[k])],
          raised |-> "none"]

\* Polynom.jac2d(pars): the pair (zx, zy)
Polynom_jac2d(o, pars) ==
    IF Len(pars) = 2
    THEN [v |-> <<>>, raised |-> "IndexError"]
    ELSE [v |-> << [k \in DOMAIN o.x |->
                     Jac2dAtX(BlocksOf(Len(pars)), pars, o.x[k], o.y[k])],
                   [k \in DOMAIN o.y |->
                     Jac2dAtY(BlocksOf(Len(pars)), pars, o.x[k], o.y[k])] >>,
          raised |-> "none"]

\* Polynom.__init__(posxy, covxy, parsx, parsy, degrees)
Polynom(posxy, covxy, parsx, parsy, degrees) ==
    [x |-> [k \in DOMAIN posxy |-> posxy[k][1]],
     y |-> [k \in DOMAIN posxy |-> posxy[k][2]],
     covxy |-> covxy, parsx |-> parsx, parsy |-> parsy,
     jac |-> <<>>, xtran |-> <<>>, ytran |-> <<>>, covtran |-> <<>>,
     xytran |-> [k \in DOMAIN posxy |-> <<0, 0>>],
     degrees |-> degrees]

\* Polynom.tranpos: xtran is assigned before ytran is evaluated
Polynom_tranpos(o) ==
    LET X == Polynom_polyval2d(o, o.parsx)
        Y == Polynom_polyval2d(o, o.parsy)
    IN  IF X.raised # "none" THEN [o |-> o, raised |-> X.raised]
        ELSE IF Y.raised # "none"
        THEN [o |-> [o EXCEPT !.xtran = X.v], raised |-> Y.raised]
        ELSE [o |-> [o EXCEPT !.xtran = X.v, !.ytran = Y.v],
              raised |-> "none"]

\* Polynom.getjacobian: jac is zeroed before jac2d is called
Polynom_getjacobian(o) ==
    LET Z == [k \in DOMAIN o.x |-> <<<<0, 0>>, <<0, 0>>>>]
        X == Polynom_jac2d(o, o.parsx)
        Y == Polynom_jac2d(o, o.parsy)
    IN  IF X.raised # "none"
        THEN [o |-> [o EXCEPT !.jac = Z], raised |-> X.raised]
        ELSE IF Y.raised # "none"
        THEN [o |-> [o EXCEPT !.jac = Z], raised |-> Y.raised]
        ELSE [o |-> [o EXCEPT !.jac =
                        [k \in DOMAIN o.x |->
                           <<<<X.v[1][k], X.v[2][k]>>,
                             <<Y.v[1][k], Y.v[2][k]>>>>]],
              raised |-> "none"]

\* no Polynom instance: one built with no positions and no coefficients
NoPolynom == Polynom(<<>>, <<>>, <<>>, <<>>, TRUE)

\* no call has returned a value
NoReturn == [of |-> "none", v |-> <<>>]

\* no arguments for a chain
NoChainArgs ==
    [cls |-> "none", x |-> <<>>, y |-> <<>>, covxy |-> <<>>, pars |-> <<>>,
     kindpoly |-> "Polynomial", lims |-> AllNone,
     ra |-> <<>>, dec |-> <<>>, covradec |-> <<>>]

\* basis tags offered to a chain: two that Poly supports, one it does not
ChainKinds == {"Polynomial", "Chebyshev", "Spline"}

\* no Patternmatrix yet, and no arguments for one
NoPatternmatrix ==
    [deg |-> NoDeg, x |-> <<>>, y |-> <<>>, norescale |-> FALSE,
     kind |-> "Polynomial", methvander |-> "polyvander2d",
     xmin |-> -1, xmax |-> 1, ymin |-> -1, ymax |-> 1,
     xr |-> <<>>, yr |-> <<>>, ipow |-> <<>>, jpow |-> <<>>, bpow |-> <<>>,
     isel |-> <<>>, jsel |-> <<>>, lvander |-> <<>>,
     vander |-> <<>>, pattern |-> <<>>]
NoArgs ==
    [deg |-> NoDeg, x |-> <<>>, y |-> <<>>, kind |-> "Polynomial",
     norescale |-> FALSE, pars |-> <<>>]

\* the flat vector with a one at place k and zeros elsewhere
UnitVec(m, k) == [l \in 1..m |-> IF l = k THEN 1 ELSE 0]

\* coefficient vectors [x-coeffs; y-coeffs] of degree d
PatternPars(d) ==
    {FlatVec(2 * Tri(d), c) : c \in CoefStarts}
        \cup {UnitVec(2 * Tri(d), k) : k \in 1..(2 * Tri(d))}

(***************************************************************************)
(* Specification of one Polycoeffs instance: constructed from a flat       *)
(* vector, then updated through updatecoeffs and getcoeffs2d.              *)
(***************************************************************************)
BlankCall == [op |-> "none", p |-> <<>>, clobber |-> FALSE]

InitPolycoeffs ==
    \E p \in FlatVecs :
        /\ pc = Polycoeffs(p).o
        /\ ret = NoReturn
        /\ pn = NoPolynom
        /\ raised = Polycoeffs(p).raised
        /\ call = [BlankCall EXCEPT !.op = "Polycoeffs.__init__", !.p = p]
        /\ count = 0
        /\ deg = NoDeg
        /\ calls = 0
        /\ pv = Parvec(<<>>).o
        /\ poly = BlankPoly
        /\ pm = NoPatternmatrix
        /\ pmargs = NoArgs
        /\ chain = NoChain
        /\ chainargs = NoChainArgs
        /\ gn = NoGnomonic

PolycoeffsUpdatecoeffs(p) ==
    /\ calls < MaxCalls
    /\ calls' = calls + 1
    /\ pc' = updatecoeffs(pc, p).o
    /\ raised' = updatecoeffs(pc, p).raised
    /\ call' = [BlankCall EXCEPT !.op = "Polycoeffs.updatecoeffs", !.p = p]
    /\ UNCHANGED <<pn, ret, chain, chainargs, gn, pv, poly, pm, pmargs, count, deg>>

PolycoeffsGetcoeffs2d(p, clobber) ==
    /\ calls < MaxCalls
    /\ calls' = calls + 1
    /\ pc' = getcoeffs2d(pc, p, clobber).o
    /\ raised' = getcoeffs2d(pc, p, clobber).raised
    /\ call' = [op |-> "Polycoeffs.getcoeffs2d", p |-> p, clobber |-> clobber]
    /\ UNCHANGED <<pn, ret, chain, chainargs, gn, pv, poly, pm, pmargs, count, deg>>

NextPolycoeffs ==
    \/ \E p \in FlatVecs : PolycoeffsUpdatecoeffs(p)
    \/ \E p \in FlatVecs, clobber \in BOOLEAN : PolycoeffsGetcoeffs2d(p, clobber)

SpecPolycoeffs == InitPolycoeffs /\ [][NextPolycoeffs]_vars

(***************************************************************************)
(* Specification of the degree inference alone: a Polycoeffs that holds    *)
(* count coefficients, before and after assigndeg.                         *)
(***************************************************************************)
BigCounts == {Tri(k) + e : k \in (MaxBigDeg - 2)..MaxBigDeg, e \in 0..2}
Counts == (1..MaxCount) \cup BigCounts

InitDeg ==
    /\ count \in Counts
    /\ deg = NoDeg
    /\ pc = Polycoeffs(<<>>).o
    /\ pv = Parvec(<<>>).o
    /\ poly = BlankPoly
    /\ pm = NoPatternmatrix
    /\ pmargs = NoArgs
    /\ chain = NoChain
    /\ chainargs = NoChainArgs
    /\ gn = NoGnomonic
    /\ ret = NoReturn
    /\ pn = NoPolynom
    /\ raised = "none"
    /\ calls = 0
    /\ call = BlankCall

PolycoeffsAssigndeg ==
    /\ calls = 0
    /\ calls' = 1
    /\ deg' = assigndeg(count)
    /\ call' = [BlankCall EXCEPT !.op = "Polycoeffs.assigndeg"]
    /\ UNCHANGED <<pn, ret, chain, chainargs, gn, pc, pv, poly, pm, pmargs, count, raised>>

NextDeg == PolycoeffsAssigndeg

SpecDeg == InitDeg /\ [][NextDeg]_vars

(***************************************************************************)
(* Claims about Polycoeffs.                                                *)
(***************************************************************************)

\* the last call ran updatecoeffs2d to its end on a vector it holds
FilledCoeffs2d ==
    /\ raised = "none"
    /\ \/ call.op = "Polycoeffs.__init__"
       \/ call.op = "Polycoeffs.getcoeffs2d"
       \/ call.op = "Polycoeffs.updatecoeffs" /\ Len(call.p) > 0

\* reading p2d back at the enumerated positions gives the flat vector
ReadsBack(o) ==
    \A k \in 1..Len(o.p) :
        /\ k <= Len(o.i)
        /\ InShape(o.p2d, o.i[k], o.j[k])
        /\ o.p2d[o.i[k]][o.j[k]] = o.p[k]

\* C2: for every valid degree d >= 0 (d = 0 included) and every flat vector
\* p of length (d+1)(d+2)/2, Polycoeffs(p) holds p[k] at p2d[i[k], j[k]]
\* for every k.
C2_CoefficientRoundTrip ==
    (/\ call.op = "Polycoeffs.__init__"
     /\ \E d \in 0..MaxDeg : Len(call.p) = Tri(d))
    => ReadsBack(pc)

\* C3: for every coefficient count m >= 1, assigndeg sets deg = d when
\* m = (d+1)(d+2)/2 for an integer d >= 0 and deg = -1 for every other m.
C3_DegreeInference ==
    call.op = "Polycoeffs.assigndeg"
    => LET ds == {d \in 0..(MaxBigDeg + 1) : Tri(d) = count}
       IN  IF ds = {} THEN deg = NoDeg ELSE deg \in ds

\* C4: for every d >= 0 the enumeration held by a Polycoeffs of degree d has
\* (d+1)(d+2)/2 pairs, holds every pair with i+j <= d exactly once, in
\* increasing total degree and, within one total degree, increasing j; and
\* updatecoeffs2d puts the k-th flat coefficient at the k-th pair.
C4_PowerEnumeration ==
    LET d == pc.deg
        n == Len(pc.i)
        tot(l) == pc.i[l] + pc.j[l]
    IN  /\ d >= 0 =>
            /\ n = Tri(d)
            /\ Len(pc.j) = n
            /\ \A l \in 1..n : pc.i[l] >= 0 /\ pc.j[l] >= 0 /\ tot(l) <= d
            /\ \A a \in 0..d, b \in 0..d :
                   a + b <= d =>
                   Cardinality({l \in 1..n : pc.i[l] = a /\ pc.j[l] = b}) = 1
            /\ \A l \in 1..(n - 1) :
                   \/ tot(l) < tot(l + 1)
                   \/ tot(l) = tot(l + 1) /\ pc.j[l] < pc.j[l + 1]
        /\ (FilledCoeffs2d /\ d >= 1) => ReadsBack(pc)

C4_Witness ==
    /\ call.op = "Polycoeffs.__init__"
    /\ pc.deg = MaxDeg
    /\ Len(pc.i) = Tri(MaxDeg)
    /\ raised = "none"

(***************************************************************************)
(* Specification of one Parvec instance: constructed from a parameter      *)
(* vector, then fed further vectors through ingestpars.                    *)
(***************************************************************************)
InitParvec ==
    \E pars \in ParvecInputs :
        /\ pv = Parvec(pars).o
        /\ ret = NoReturn
        /\ pn = NoPolynom
        /\ raised = Parvec(pars).raised
        /\ call = [BlankCall EXCEPT !.op = "Parvec.__init__", !.p = pars]
        /\ calls = 0
        /\ pc = Polycoeffs(<<>>).o
        /\ poly = BlankPoly
        /\ pm = NoPatternmatrix
        /\ pmargs = NoArgs
        /\ chain = NoChain
        /\ chainargs = NoChainArgs
        /\ gn = NoGnomonic
        /\ count = 0
        /\ deg = NoDeg

ParvecIngestpars(pars) ==
    /\ calls < MaxCalls
    /\ calls' = calls + 1
    /\ pv' = ingestpars(pv, pars).o
    /\ raised' = ingestpars(pv, pars).raised
    /\ call' = [BlankCall EXCEPT !.op = "Parvec.ingestpars", !.p = pars]
    /\ UNCHANGED <<pn, ret, chain, chainargs, gn, pc, poly, pm, pmargs, count, deg>>

NextParvec == \E pars \in ParvecInputs : ParvecIngestpars(pars)

SpecParvec == InitParvec /\ [][NextParvec]_vars

(***************************************************************************)
(* Claims about Parvec.                                                    *)
(***************************************************************************)
IsTri(n) == \E d \in 0..n : Tri(d) = n

\* the per-axis coefficient count of a vector [tangent point, x, y]
AxisCount(pars) == (Len(pars) - 2) \div 2

\* a vector [tangent point (2), x-coeffs (n), y-coeffs (n)] with n >= 1
Splittable(pars) == Len(pars) >= 4 /\ (Len(pars) - 2) % 2 = 0

XHalf(pars) == SliceTo(SliceFrom(pars, 2), AxisCount(pars))
YHalf(pars) == SliceFrom(SliceFrom(pars, 2), AxisCount(pars))

\* C5: for a vector [tangent point, x-coeffs (n), y-coeffs (n)], ingestpars
\* sets tangentpoint to the first two entries; if n = (d+1)(d+2)/2 it stores
\* the halves unchanged with hasxy0 = True; if n is not of that form but
\* n+1 is, it stores each half with one 0 prepended and hasxy0 = False.
C5_ParvecLayout ==
    (/\ call.op \in {"Parvec.__init__", "Parvec.ingestpars"}
     /\ Splittable(call.p))
    => LET n == AxisCount(call.p)
       IN  /\ pv.tangentpoint = SliceTo(call.p, 2)
           /\ IsTri(n) =>
                  /\ pv.parsx = XHalf(call.p)
                  /\ pv.parsy = YHalf(call.p)
                  /\ pv.hasxy0 = TRUE
           /\ (~IsTri(n) /\ IsTri(n + 1)) =>
                  /\ pv.parsx = <<0>> \o XHalf(call.p)
                  /\ pv.parsy = <<0>> \o YHalf(call.p)
                  /\ pv.hasxy0 = FALSE

\* the vector cannot be ingested: the part after the tangent point has odd
\* length, or its halves have a count n with neither n nor n+1 triangular
InvalidParvec(pars) ==
    /\ Len(pars) >= 3
    /\ \/ (Len(pars) - 2) % 2 = 1
       \/ ~IsTri(AxisCount(pars)) /\ ~IsTri(AxisCount(pars) + 1)

\* C6: when the vector passed to ingestpars is invalid, ingestpars returns
\* without raising and tangentpoint, parsx, parsy and hasxy0 have exactly
\* the values they had before the call.
C6_InvalidParvecUntouched ==
    [][(call'.op = "Parvec.ingestpars" /\ InvalidParvec(call'.p))
       => /\ raised' = "none"
          /\ pv'.tangentpoint = pv.tangentpoint
          /\ pv'.parsx = pv.parsx
          /\ pv'.parsy = pv.parsy
          /\ pv'.hasxy0 = pv.hasxy0]_vars

(***************************************************************************)
(* Specification of one Poly instance: constructed from positions,         *)
(* covariances, coefficients and a domain, then given new data (an empty   *)
(* batch or a full one, lying outside the sample domains) and new limits.  *)
(* A domain is left to the data only when the data span it.                *)
(***************************************************************************)
InitPoly ==
    \E n \in 0..MaxPts, pars \in PolyPars,
       lims \in {AllNone} \cup {Limits(d) : d \in PolyDomains} :
      \E covxy \in CovMatching(n) :
        /\ lims = AllNone => (n = 0 \/ (Spans(DataX(n, 0)) /\ Spans(DataY(n, 0))))
        /\ poly = Poly(DataX(n, 0), DataY(n, 0), covxy,
                       splitpars(pars).parsx, splitpars(pars).parsy, lims)
        /\ ret = NoReturn
        /\ pn = NoPolynom
        /\ raised = "none"
        /\ call = [BlankCall EXCEPT !.op = "Poly.__init__"]
        /\ calls = 0
        /\ pc = Polycoeffs(<<>>).o
        /\ pv = Parvec(<<>>).o
        /\ pm = NoPatternmatrix
        /\ pmargs = NoArgs
        /\ chain = NoChain
        /\ chainargs = NoChainArgs
        /\ gn = NoGnomonic
        /\ count = 0
        /\ deg = NoDeg

PolyUpdatedata(x, y, covxy) ==
    /\ calls < MaxCalls
    /\ calls' = calls + 1
    /\ poly' = updatedata(poly, x, y, covxy)
    /\ call' = [BlankCall EXCEPT !.op = "Poly.updatedata"]
    /\ UNCHANGED <<pn, ret, chain, chainargs, gn, pc, pv, pm, pmargs, count, deg, raised>>

PolyUpdatejacobian ==
    /\ calls < MaxCalls
    /\ calls' = calls + 1
    /\ poly' = updatejacobian(poly)
    /\ call' = [BlankCall EXCEPT !.op = "Poly.updatejacobian"]
    /\ UNCHANGED <<pn, ret, chain, chainargs, gn, pc, pv, pm, pmargs, count, deg, raised>>

PolyIngestdata(x, y, covxy) ==
    /\ calls < MaxCalls
    /\ calls' = calls + 1
    /\ poly' = ingestdata(poly, x, y, covxy)
    /\ call' = [BlankCall EXCEPT !.op = "Poly.ingestdata"]
    /\ UNCHANGED <<pn, ret, chain, chainargs, gn, pc, pv, pm, pmargs, count, deg, raised>>

PolyUpdatelimits(lims) ==
    /\ calls < MaxCalls
    /\ calls' = calls + 1
    /\ poly' = updatelimits(poly, lims)
    /\ call' = [BlankCall EXCEPT !.op = "Poly.updatelimits"]
    /\ UNCHANGED <<pn, ret, chain, chainargs, gn, pc, pv, pm, pmargs, count, deg, raised>>

NextPoly ==
    \/ \E n \in {0, MaxPts} :
         \E covxy \in CovInputs(n) :
            PolyUpdatedata(DataX(n, 2), DataY(n, 2), covxy)
    \/ PolyUpdatejacobian
    \/ \E n \in {0, MaxPts} :
         \E covxy \in CovMatching(n) :
            PolyIngestdata(DataX(n, 2), DataY(n, 2), covxy)
    \/ \E d \in PolyDomains : PolyUpdatelimits(Limits(d))

SpecPoly == InitPoly /\ [][NextPoly]_vars

DomainOf(o) == <<o.xmin, o.xmax, o.ymin, o.ymax>>

\* the derivative of the position map at the unrescaled point (x, y), term
\* by term from the flat coefficients: d/dx of p * xr^i * yr^j is
\* p * i * xr^(i-1) * yr^j * 2/(xmax - xmin), and likewise in y
DerivTerms(pc2, xr, yr, wrtx) ==
    [l \in 1..Len(pc2.p) |->
        LET i == pc2.i[l]
            j == pc2.j[l]
        IN  IF wrtx
            THEN IF i = 0 THEN RInt(0)
                 ELSE RMul(RMul(RInt(pc2.p[l] * i), RPow(xr, i - 1)), RPow(yr, j))
            ELSE IF j = 0 THEN RInt(0)
                 ELSE RMul(RMul(RInt(pc2.p[l] * j), RPow(xr, i)), RPow(yr, j - 1))]

RSumSeq(t) == RSum(t, DOMAIN t)

TrueJac(o, x, y) ==
    LET r == rescalexy(o, <<x>>, <<y>>)
        sx == Rat(2, o.xmax[1] - o.xmin[1])
        sy == Rat(2, o.ymax[1] - o.ymin[1])
    IN  <<<<RMul(RSumSeq(DerivTerms(o.pars2x, r.xr[1], r.yr[1], TRUE)), sx),
            RMul(RSumSeq(DerivTerms(o.pars2x, r.xr[1], r.yr[1], FALSE)), sy)>>,
          <<RMul(RSumSeq(DerivTerms(o.pars2y, r.xr[1], r.yr[1], TRUE)), sx),
            RMul(RSumSeq(DerivTerms(o.pars2y, r.xr[1], r.yr[1], FALSE)), sy)>>>>

JacIsFresh == call.op \in {"Poly.__init__", "Poly.ingestdata", "Poly.updatejacobian"}

\* C7: whenever a Poly has just computed its Jacobian for its points, the
\* cached 2x2 matrix of every point, and the J that propcov builds for that
\* point, is the derivative of the position map with respect to the
\* unrescaled inputs, whatever the widths of the domain.
C7_JacobianIsDerivative ==
    (JacIsFresh /\ Len(poly.x) >= 1) =>
        \A k \in 1..Len(poly.x) :
            /\ poly.jac[k] = TrueJac(poly, poly.x[k], poly.y[k])
            /\ propcovJ(poly, <<poly.x[k]>>, <<poly.y[k]>>)[1]
                  = TrueJac(poly, poly.x[k], poly.y[k])

DataOps == {"Poly.ingestdata", "Poly.updatedata", "Poly.updatejacobian"}

\* C8: a call of ingestdata, updatedata or updatejacobian leaves the four
\* limits as they were, and leaves the rescale Jacobian of that domain, with
\* its factors 2/(xmax-xmin) and 2/(ymax-ymin), as it was.
C8_DomainFixedAcrossData ==
    [][call'.op \in DataOps =>
          /\ DomainOf(poly') = DomainOf(poly)
          /\ JacRescale(poly') = JacRescale(poly)
          /\ (poly.jacrescale = JacRescale(poly)
                => poly'.jacrescale = poly.jacrescale)]_vars

\* new data outside the domain have been ingested
C8_Witness ==
    /\ call.op = "Poly.ingestdata"
    /\ poly.jacrescale = JacRescale(poly)
    /\ \E k \in 1..Len(poly.x) :
          \/ poly.x[k] > poly.xmax[1]
          \/ poly.y[k] > poly.ymax[1]

\* C9: once updatelimits has given new finite limits to a Poly that holds
\* data, the rescale Jacobian, the rescaled positions and the cached
\* Jacobian are those of the new limits.
C9_LimitsUpdateRecomputes ==
    (call.op = "Poly.updatelimits" /\ Len(poly.x) >= 1) =>
        /\ poly.jacrescale = JacRescale(poly)
        /\ poly.xr = rescalexy(poly, poly.x, poly.y).xr
        /\ poly.yr = rescalexy(poly, poly.x, poly.y).yr
        /\ poly.jac = updatejacobian(poly).jac

(***************************************************************************)
(* Specification of the pattern matrix: a degree, sample points and a      *)
(* coefficient vector are drawn, and a Patternmatrix is built from them.   *)
(* Without norescale its domain is that of the points, which must span it. *)
(***************************************************************************)
InitPattern ==
    \E d \in 1..MaxDeg, n \in 1..MaxPts, s \in {0, 2}, norescale \in BOOLEAN :
      \E pars \in PatternPars(d) :
        /\ norescale \/ (Spans(DataX(n, s)) /\ Spans(DataY(n, s)))
        /\ pmargs = [deg |-> d, x |-> DataX(n, s), y |-> DataY(n, s),
                     kind |-> "Polynomial",
                     norescale |-> norescale, pars |-> pars]
        /\ pm = NoPatternmatrix
        /\ gn = NoGnomonic
        /\ chain = NoChain
        /\ chainargs = NoChainArgs
        /\ ret = NoReturn
        /\ pn = NoPolynom
        /\ raised = "none"
        /\ call = BlankCall
        /\ calls = 0
        /\ pc = Polycoeffs(<<>>).o
        /\ pv = Parvec(<<>>).o
        /\ poly = BlankPoly
        /\ count = 0
        /\ deg = NoDeg

PatternmatrixInit ==
    /\ call.op = "none"
    /\ pm' = Patternmatrix(pmargs.deg, pmargs.x, pmargs.y, pmargs.norescale)
    /\ call' = [BlankCall EXCEPT !.op = "Patternmatrix.__init__"]
    /\ calls' = calls + 1
    /\ UNCHANGED <<pn, ret, chain, chainargs, gn, pc, pv, poly, pmargs, count, deg, raised>>

NextPattern == PatternmatrixInit

SpecPattern == InitPattern /\ [][NextPattern]_vars

\* the product of one row of the pattern matrix with a flat vector
RowTimes(row, v) == RSumSeq([c \in DOMAIN row |-> RMul(row[c], RInt(v[c]))])

\* the Poly that holds the drawn coefficients on the pattern matrix's domain
PatternPoly ==
    Poly(pm.x, pm.y, <<>>,
         splitpars(pmargs.pars).parsx, splitpars(pmargs.pars).parsy,
         Limits(<<pm.xmin, pm.xmax, pm.ymin, pm.ymax>>))

\* C1: for every point, the pattern matrix times the flat vector [cx; cy]
\* is the position (x', y') that Poly.propxy gives for that point, when the
\* Poly holds parsx = cx and parsy = cy on the same domain.
C1_PatternMatrixEquivalence ==
    call.op = "Patternmatrix.__init__" =>
        \A k \in DOMAIN pm.x :
            /\ RowTimes(pm.pattern[k][1], pmargs.pars)
                  = propxy(PatternPoly, pm.x, pm.y).xtran[k]
            /\ RowTimes(pm.pattern[k][2], pmargs.pars)
                  = propxy(PatternPoly, pm.x, pm.y).ytran[k]

(***************************************************************************)
(* Specification of one Tan2equ or Equ2tan instance: constructed from      *)
(* positions, covariances and a tangent point, then given new data and     *)
(* new tangent points.                                                     *)
(***************************************************************************)
InitGnomonic ==
    \E n \in 0..MaxPts, pars \in TangentPoints, degrees \in BOOLEAN :
      \E covxy \in CovMatching(n) :
        /\ \/ gn = Tan2equ(DataX(n, 0), DataY(n, 0), covxy, pars, degrees)
           \/ gn = Equ2tan(DataX(n, 0), DataY(n, 0), covxy, pars, degrees)
        /\ ret = NoReturn
        /\ pn = NoPolynom
        /\ raised = "none"
        /\ call = [BlankCall EXCEPT !.op = gn.cls \o ".__init__"]
        /\ calls = 0
        /\ pc = Polycoeffs(<<>>).o
        /\ pv = Parvec(<<>>).o
        /\ poly = BlankPoly
        /\ pm = NoPatternmatrix
        /\ pmargs = NoArgs
        /\ chain = NoChain
        /\ chainargs = NoChainArgs
        /\ count = 0
        /\ deg = NoDeg

Tan2equUpdatetransf(pars) ==
    /\ gn.cls = "Tan2equ"
    /\ calls < MaxCalls
    /\ calls' = calls + 1
    /\ gn' = Tan2equ_updatetransf(gn, pars)
    /\ call' = [BlankCall EXCEPT !.op = "Tan2equ.updatetransf", !.p = pars]
    /\ UNCHANGED <<pn, ret, chain, chainargs, pc, pv, poly, pm, pmargs, count, deg, raised>>

Equ2tanUpdatetransf(pars) ==
    /\ gn.cls = "Equ2tan"
    /\ calls < MaxCalls
    /\ calls' = calls + 1
    /\ gn' = Equ2tan_updatetransf(gn, pars)
    /\ call' = [BlankCall EXCEPT !.op = "Equ2tan.updatetransf", !.p = pars]
    /\ UNCHANGED <<pn, ret, chain, chainargs, pc, pv, poly, pm, pmargs, count, deg, raised>>

GnomonicUpdatedata(x, y, covxy) ==
    /\ calls < MaxCalls
    /\ calls' = calls + 1
    /\ gn' = Gnomonic_updatedata(gn, x, y, covxy)
    /\ call' = [BlankCall EXCEPT !.op = gn.cls \o ".updatedata"]
    /\ UNCHANGED <<pn, ret, chain, chainargs, pc, pv, poly, pm, pmargs, count, deg, raised>>

Tan2equUpdatejacobian ==
    /\ gn.cls = "Tan2equ"
    /\ calls < MaxCalls
    /\ calls' = calls + 1
    /\ gn' = Tan2equ_updatejacobian(gn)
    /\ call' = [BlankCall EXCEPT !.op = "Tan2equ.updatejacobian"]
    /\ UNCHANGED <<pn, ret, chain, chainargs, pc, pv, poly, pm, pmargs, count, deg, raised>>

NextGnomonic ==
    \/ \E pars \in NewPars : Tan2equUpdatetransf(pars)
    \/ \E pars \in NewPars : Equ2tanUpdatetransf(pars)
    \/ \E n \in {0, MaxPts} :
         \E covxy \in CovInputs(n) :
            GnomonicUpdatedata(DataX(n, 2), DataY(n, 2), covxy)
    \/ Tan2equUpdatejacobian

SpecGnomonic == InitGnomonic /\ [][NextGnomonic]_vars

\* the Jacobian that an instance's own evaluatejac gives for its positions
\* under its tangent point
JacOfCurrent(o) ==
    IF o.cls = "Tan2equ" THEN Tan2equ_evaluatejac(o, o.x, o.y)
    ELSE Equ2tan_evaluatejac(o, o.x, o.y)

\* C10: a call of updatetransf(p) on a Tan2equ or an Equ2tan with a p of
\* two elements leaves pars equal to p and the cached jac equal to
\* evaluatejac at the positions the instance holds, which it does not
\* change; with a p of any other size it leaves pars and jac as they were.
C10_TangentPointUpdate ==
    [][call'.op \in {"Tan2equ.updatetransf", "Equ2tan.updatetransf"} =>
          IF Len(call'.p) = 2
          THEN /\ gn'.pars = call'.p
               /\ gn'.x = gn.x /\ gn'.y = gn.y
               /\ gn'.jac = JacOfCurrent(gn')
          ELSE /\ gn'.pars = gn.pars
               /\ gn'.jac = gn.jac]_vars

\* a tangent point has been given to an instance whose positions were
\* replaced after its Jacobian was last computed
C10_Witness ==
    /\ call.op \in {"Tan2equ.updatetransf", "Equ2tan.updatetransf"}
    /\ Len(call.p) = 2
    /\ gn.pars = call.p
    /\ Len(gn.x) = MaxPts
    /\ gn.x = DataX(MaxPts, 2)
    /\ Len(gn.jac) = MaxPts

(***************************************************************************)
(* Specification of the construction of a chain: the arguments are drawn,  *)
(* then xy2equ or TangentPlane is constructed from them.                   *)
(***************************************************************************)
InitChain ==
    \E cls \in {"xy2equ", "TangentPlane"}, n \in 1..MaxPts,
       pars \in ParvecInputs, kindpoly \in ChainKinds,
       lims \in {AllNone} \cup {Limits(d) : d \in PolyDomains} :
      \E covxy \in CovMatching(n) :
        /\ lims = AllNone => (Spans(DataX(n, 0)) /\ Spans(DataY(n, 0)))
        /\ chainargs = [cls |-> cls, x |-> DataX(n, 0), y |-> DataY(n, 0),
                        covxy |-> covxy, pars |-> pars, kindpoly |-> kindpoly,
                        lims |-> lims,
                        ra |-> IF cls = "TangentPlane" THEN DataX(n, 33) ELSE <<>>,
                        dec |-> IF cls = "TangentPlane" THEN DataY(n, 17) ELSE <<>>,
                        covradec |-> IF cls = "TangentPlane" THEN covxy ELSE <<>>]
        /\ chain = NoChain
        /\ ret = NoReturn
        /\ pn = NoPolynom
        /\ raised = "none"
        /\ call = BlankCall
        /\ calls = 0
        /\ pc = Polycoeffs(<<>>).o
        /\ pv = Parvec(<<>>).o
        /\ poly = BlankPoly
        /\ pm = NoPatternmatrix
        /\ pmargs = NoArgs
        /\ gn = NoGnomonic
        /\ count = 0
        /\ deg = NoDeg

Xy2equInit ==
    /\ call.op = "none"
    /\ chainargs.cls = "xy2equ"
    /\ LET r == xy2equ(chainargs.x, chainargs.y, chainargs.covxy,
                       chainargs.pars, chainargs.kindpoly, chainargs.lims)
       IN  chain' = r.o /\ raised' = r.raised
    /\ call' = [BlankCall EXCEPT !.op = "xy2equ.__init__", !.p = chainargs.pars]
    /\ calls' = calls + 1
    /\ UNCHANGED <<pn, ret, pc, pv, poly, pm, pmargs, gn, chainargs, count, deg>>

TangentPlaneInit ==
    /\ call.op = "none"
    /\ chainargs.cls = "TangentPlane"
    /\ LET r == TangentPlane(chainargs.x, chainargs.y, chainargs.covxy,
                             chainargs.pars, chainargs.kindpoly,
                             chainargs.ra, chainargs.dec, chainargs.covradec,
                             chainargs.lims)
       IN  chain' = r.o /\ raised' = r.raised
    /\ call' = [BlankCall EXCEPT !.op = "TangentPlane.__init__", !.p = chainargs.pars]
    /\ calls' = calls + 1
    /\ UNCHANGED <<pn, ret, pc, pv, poly, pm, pmargs, gn, chainargs, count, deg>>

NextChain == Xy2equInit \/ TangentPlaneInit

SpecChain == InitChain /\ [][NextChain]_vars

\* a vector [tangent point, x-coeffs, y-coeffs] that Parvec accepts
ValidChainPars(pars) == Splittable(pars) /\ ~InvalidParvec(pars)

\* vectors for an update: as long as pars, with other entries throughout
UpdatesFor(pars) ==
    {tp \o FlatVec(Len(pars) - 2, 5) : tp \in TangentPoints}

\* C11: once xy2equ has been constructed with a valid vector, a call of
\* updatetransf(v) with a valid v leaves in tp2equ the positions that the
\* polynomial gives with the coefficients of v, and the Jacobian evaluated
\* at those positions with the tangent point of v.
C11_ChainUpdateOrdering ==
    (call.op = "xy2equ.__init__" /\ ValidChainPars(chainargs.pars)) =>
        /\ raised = "none"
        /\ \A v \in UpdatesFor(chainargs.pars) :
              LET r == xy2equ_updatetransf(chain, v)
                  P == r.o.xy2tp
                  T == r.o.tp2equ
              IN  /\ r.raised = "none"
                  /\ P.pars2x.p = Parvec(v).o.parsx
                  /\ P.pars2y.p = Parvec(v).o.parsy
                  /\ T.x = propxy(P, P.x, P.y).xtran
                  /\ T.y = propxy(P, P.x, P.y).ytran
                  /\ T.pars = SliceTo(v, 2)
                  /\ T.jac = Tan2equ_evaluatejac(T, T.x, T.y)

\* C12: once xy2equ has been constructed with a valid vector on points that
\* carry covariances, trancov leaves covtran = Jg * (Jp * C * Jp^T) * Jg^T a
\* point, Jp the polynomial Jacobian at the raw positions and Jg the
\* gnomonic Jacobian at the polynomial's outputs, and leaves the same
\* whether or not tranpos was called first.
C12_ChainCovarianceComposition ==
    (/\ call.op = "xy2equ.__init__"
     /\ ValidChainPars(chainargs.pars)
     /\ chainargs.covxy # <<>>) =>
        /\ raised = "none"
        /\ LET a   == xy2equ_trancov(chain)
               b   == xy2equ_trancov(xy2equ_tranpos(chain))
               P   == chain.xy2tp
               out == propxy(P, P.x, P.y)
               Jp  == propcovJ(P, P.x, P.y)
               in  == [k \in DOMAIN Jp |->
                          MatMul(Jp[k], MatMul(RMat(P.covxy[k]), Transpose(Jp[k])))]
               Jg  == Tan2equ_evaluatejac(chain.tp2equ, out.xtran, out.ytran)
           IN  /\ a.raised = "none"
               /\ Len(a.o.covtran) = Len(chainargs.x)
               /\ a.o.covtran = [k \in DOMAIN Jg |->
                                   [f |-> "J*C*Jt", J |-> Jg[k], C |-> in[k]]]
               /\ b.raised = "none"
               /\ b.o.covtran = a.o.covtran

\* C13: once TangentPlane has been constructed with a valid vector on
\* points and targets that carry covariances, an
\* updatetransf that changes only the polynomial coefficients, followed by
\* propagate, leaves xytarg and covtarg as they were, and one that changes
\* only the tangent point leaves xytran and covtran as they were.
C13_DualFrameIndependence ==
    (/\ call.op = "TangentPlane.__init__"
     /\ ValidChainPars(chainargs.pars)
     /\ chainargs.covxy # <<>>
     /\ chainargs.covradec # <<>>) =>
        /\ raised = "none"
        /\ \A v \in UpdatesFor(chainargs.pars) :
              LET tp0 == SliceTo(chainargs.pars, 2)
                  vc  == tp0 \o SliceFrom(v, 2)
                  vt  == SliceTo(v, 2) \o SliceFrom(chainargs.pars, 2)
                  uc  == TangentPlane_updatetransf(chain, vc)
                  ut  == TangentPlane_updatetransf(chain, vt)
                  pc1 == TangentPlane_propagate(uc.o)
                  pt1 == TangentPlane_propagate(ut.o)
              IN  /\ uc.raised = "none" /\ pc1.raised = "none"
                  /\ pc1.o.xytarg = chain.xytarg
                  /\ pc1.o.covtarg = chain.covtarg
                  /\ ut.raised = "none" /\ pt1.raised = "none"
                  /\ pt1.o.xytran = chain.xytran
                  /\ pt1.o.covtran = chain.covtran

\* C14: after any sequence of updatedata / ingestdata calls on a Poly,
\* Tan2equ or Equ2tan, the stored covariance field is empty or holds as
\* many 2x2 matrices as there are stored points.
CovLengthAgrees(o) == o.covxy = <<>> \/ Len(o.covxy) = Len(o.x)
C14_PointCovarianceLength == CovLengthAgrees(poly) /\ CovLengthAgrees(gn)

(***************************************************************************)
(* Specification of the choice of basis: a tag, positions and a degree are *)
(* drawn, then a Poly and a Patternmatrix are constructed with them.  A    *)
(* basis other than Polynomial is given degree 0.                          *)
(***************************************************************************)

\* basis tags: the five of numpy that the classes list, and three others
BasisTags == PolysAllowed \cup {"Spline", "Laguerre", "polynomial"}

InitKind ==
    \E tag \in BasisTags, n \in 1..MaxPts, d \in 0..MaxDeg,
       lims \in {AllNone, Limits(<<0, 4, 0, 2>>)}, norescale \in BOOLEAN :
        /\ checkpolysupported(tag) # "Polynomial" => d = 0
        /\ (lims = AllNone \/ ~norescale) =>
               (Spans(DataX(n, 0)) /\ Spans(DataY(n, 0)))
        /\ chainargs = [NoChainArgs EXCEPT
                          !.cls = "Poly", !.x = DataX(n, 0), !.y = DataY(n, 0),
                          !.pars = FlatVec(2 * Tri(d), 1),
                          !.kindpoly = tag, !.lims = lims]
        /\ pmargs = [deg |-> d, x |-> DataX(n, 0), y |-> DataY(n, 0),
                     kind |-> tag, norescale |-> norescale, pars |-> <<>>]
        /\ poly = BlankPoly
        /\ pm = NoPatternmatrix
        /\ ret = NoReturn
        /\ pn = NoPolynom
        /\ raised = "none"
        /\ call = BlankCall
        /\ calls = 0
        /\ pc = Polycoeffs(<<>>).o
        /\ pv = Parvec(<<>>).o
        /\ gn = NoGnomonic
        /\ chain = NoChain
        /\ count = 0
        /\ deg = NoDeg

PolyKindInit ==
    /\ calls < MaxCalls
    /\ calls' = calls + 1
    /\ LET r == PolyCall({"kindpoly", "xmin", "xmax", "ymin", "ymax"},
                         chainargs.x, chainargs.y, chainargs.covxy,
                         splitpars(chainargs.pars).parsx,
                         splitpars(chainargs.pars).parsy,
                         chainargs.kindpoly, chainargs.lims)
       IN  poly' = r.o /\ raised' = r.raised
    /\ call' = [BlankCall EXCEPT !.op = "Poly.__init__"]
    /\ UNCHANGED <<pn, ret, chain, chainargs, gn, pc, pv, pm, pmargs, count, deg>>

PatternmatrixKindInit ==
    /\ calls < MaxCalls
    /\ calls' = calls + 1
    /\ pm' = PatternmatrixOfKind(pmargs.deg, pmargs.x, pmargs.y, pmargs.kind,
                                 pmargs.norescale)
    /\ raised' = "none"
    /\ call' = [BlankCall EXCEPT !.op = "Patternmatrix.__init__"]
    /\ UNCHANGED <<pn, ret, chain, chainargs, gn, pc, pv, poly, pmargs, count, deg>>

NextKind == PolyKindInit \/ PatternmatrixKindInit

SpecKind == InitKind /\ [][NextKind]_vars

\* the bases the classes are said to support, and the names of numpy's
\* Polynomial functions
SupportedTags == {"Polynomial", "Chebyshev", "Legendre", "Hermite", "HermiteE"}
KindFor(tag) == IF tag \in SupportedTags THEN tag ELSE "Polynomial"

\* C15: constructing a Poly or a Patternmatrix with a basis tag outside
\* {Polynomial, Chebyshev, Legendre, Hermite, HermiteE} does not fail, the
\* instance's kind becomes 'Polynomial' and its evaluation, derivative and
\* Vandermonde methods are numpy's Polynomial ones (the instance is the
\* one constructed with 'Polynomial'); a supported tag is kept unchanged.
C15_UnknownBasisFallback ==
    [][/\ call'.op = "Poly.__init__" =>
            /\ raised' = "none"
            /\ poly'.kind = KindFor(chainargs.kindpoly)
            /\ chainargs.kindpoly \notin SupportedTags =>
                  /\ poly'.methval2d = "polyval2d"
                  /\ poly'.methder = "polyder"
                  /\ poly' = Poly(chainargs.x, chainargs.y, chainargs.covxy,
                                  splitpars(chainargs.pars).parsx,
                                  splitpars(chainargs.pars).parsy,
                                  chainargs.lims)
       /\ call'.op = "Patternmatrix.__init__" =>
            /\ raised' = "none"
            /\ pm'.kind = KindFor(pmargs.kind)
            /\ pmargs.kind \notin SupportedTags =>
                  /\ pm'.methvander = "polyvander2d"
                  /\ pm' = Patternmatrix(pmargs.deg, pmargs.x, pmargs.y,
                                         pmargs.norescale)]_vars

\* a Poly and a Patternmatrix have both been constructed on data with a tag
\* that is not supported
C15_Witness ==
    /\ chainargs.kindpoly = "Spline"
    /\ pmargs.kind = "Spline"
    /\ call.op = "Patternmatrix.__init__"
    /\ Len(poly.x) = MaxPts
    /\ poly.pars2x.deg = MaxDeg
    /\ poly.kind = "Polynomial"
    /\ pm.deg = MaxDeg
    /\ pm.kind = "Polynomial"
    /\ Len(pm.pattern) > 0

(***************************************************************************)
(* Specification of parameter updates of a Poly: constructed on data with  *)
(* coefficients of some degree, then given new parameter vectors (empty,   *)
(* of length 1, of the current length, one shorter, one longer, and of the *)
(* lengths of the neighbouring degrees), and new data in between.  A call  *)
(* that raises ends the run.                                               *)
(***************************************************************************)

\* lengths of the vectors offered to a Poly that holds m coefficients an axis
TransfLens(m) ==
    {0, 1, 2 * m, 2 * m + 1}
      \cup {l \in {2 * m - 1} : l >= 3}
      \cup {2 * Tri(d) : d \in {e \in 0..MaxDeg : Tri(e) # m}}
TransfVecs(o) == {FlatVec(l, 5) : l \in TransfLens(Len(o.pars2x.i))}

InitPolyTransf ==
    \E n \in 1..MaxPts, d \in 0..MaxDeg,
       lims \in {AllNone, Limits(<<0, 4, 0, 2>>)} :
      \E covxy \in CovMatching(n) :
        /\ lims = AllNone => (Spans(DataX(n, 0)) /\ Spans(DataY(n, 0)))
        /\ poly = Poly(DataX(n, 0), DataY(n, 0), covxy,
                       FlatVec(Tri(d), 1), FlatVec(Tri(d), 1 + Tri(d)), lims)
        /\ ret = NoReturn
        /\ pn = NoPolynom
        /\ raised = "none"
        /\ call = [BlankCall EXCEPT !.op = "Poly.__init__"]
        /\ calls = 0
        /\ pc = Polycoeffs(<<>>).o
        /\ pv = Parvec(<<>>).o
        /\ pm = NoPatternmatrix
        /\ pmargs = NoArgs
        /\ chain = NoChain
        /\ chainargs = NoChainArgs
        /\ gn = NoGnomonic
        /\ count = 0
        /\ deg = NoDeg

PolyUpdatetransf(v) ==
    /\ raised = "none"
    /\ calls < MaxCalls
    /\ calls' = calls + 1
    /\ LET r == updatetransf(poly, v)
       IN  poly' = r.o /\ raised' = r.raised
    /\ call' = [BlankCall EXCEPT !.op = "Poly.updatetransf", !.p = v]
    /\ UNCHANGED <<pn, ret, chain, chainargs, gn, pc, pv, pm, pmargs, count, deg>>

NextPolyTransf ==
    \/ \E v \in TransfVecs(poly) : PolyUpdatetransf(v)
    \/ raised = "none" /\ PolyUpdatedata(DataX(MaxPts, 2), DataY(MaxPts, 2), <<>>)
    \/ raised = "none" /\ PolyIngestdata(DataX(1, 2), DataY(1, 2), <<>>)

SpecPolyTransf == InitPolyTransf /\ [][NextPolyTransf]_vars

\* the derivative of a square coefficient array along axis 0 (wrtx) or
\* axis 1, padded with zeros to the shape of the array
AxisDeriv(c, wrtx) ==
    [a \in DOMAIN c |-> [b \in DOMAIN c[a] |->
        IF wrtx THEN IF a + 1 \in DOMAIN c THEN (a + 1) * c[a + 1][b] ELSE 0
        ELSE IF b + 1 \in DOMAIN c[a] THEN (b + 1) * c[a][b + 1] ELSE 0]]

\* the triangular array that holds the flat vector p: p[l] at (i, j) of the
\* l-th power pair, zero elsewhere
TriangleOf(p) ==
    LET d  == assigndeg(Len(p))
        ij == ijfromdeg(d)
    IN  [a \in 0..d |-> [b \in 0..d |->
            IF \E l \in 1..Len(p) : ij.i[l] = a /\ ij.j[l] = b
            THEN p[CHOOSE l \in 1..Len(p) : ij.i[l] = a /\ ij.j[l] = b]
            ELSE 0]]

\* the caches of o are those of its data and limits
CachesCurrent(o) ==
    /\ o.jacrescale = JacRescale(o)
    /\ o.xr = rescalexy(o, o.x, o.y).xr
    /\ o.yr = rescalexy(o, o.x, o.y).yr
    /\ Len(o.jacpoly) = Len(o.x)

\* the fields of a Poly that its coefficients, positions and domain determine
TransfState(o) ==
    <<o.x, o.y, DomainOf(o), o.parsx, o.parsy, o.pars2x, o.pars2y,
      o.cxx, o.cxy, o.cyx, o.cyy, o.jacrescale, o.xr, o.yr, o.jacpoly, o.jac>>

\* C16: Poly.updatetransf(v) with v of length < 1 changes nothing; with v
\* of even length whose halves have the current coefficient count, on a
\* Poly holding data, it leaves v's halves in the two triangular arrays,
\* their axis-0 and axis-1 derivatives, zero-padded to the same shape, in
\* the four derivative arrays, and jacrescale times the derivative arrays
\* evaluated at the rescaled positions in jac, and the covariances as they
\* were; when the caches were those of the positions and domain, the
\* state is that of a Poly constructed with v's halves on the same
\* positions and domain.
C16_UpdateRefreshesDependents ==
    [][call'.op = "Poly.updatetransf" =>
        LET v  == call'.p
            vx == splitpars(v).parsx
            vy == splitpars(v).parsy
        IN  /\ Len(v) < 1 => (poly' = poly /\ raised' = "none")
            /\ (/\ Len(v) >= 2
                /\ Len(v) % 2 = 0
                /\ Len(vx) = Len(poly.pars2x.i)
                /\ Len(poly.x) >= 1) =>
                  /\ raised' = "none"
                  /\ poly'.pars2x.p2d = TriangleOf(vx)
                  /\ poly'.pars2y.p2d = TriangleOf(vy)
                  /\ poly'.cxx = AxisDeriv(poly'.pars2x.p2d, TRUE)
                  /\ poly'.cxy = AxisDeriv(poly'.pars2x.p2d, FALSE)
                  /\ poly'.cyx = AxisDeriv(poly'.pars2y.p2d, TRUE)
                  /\ poly'.cyy = AxisDeriv(poly'.pars2y.p2d, FALSE)
                  /\ poly'.jac = CombinedJac(poly'.jacrescale,
                                     evaluatejacpoly(poly', poly'.xr, poly'.yr))
                  /\ poly'.covxy = poly.covxy
                  /\ CachesCurrent(poly) =>
                        TransfState(poly')
                          = TransfState(Poly(poly.x, poly.y, <<>>, vx, vy,
                                             DomainOf(poly)))]_vars

\* the coefficient arrays, derivative arrays and cached Jacobian of a Poly
CoefficientState(o) ==
    <<o.pars2x.p2d, o.pars2y.p2d, o.cxx, o.cxy, o.cyx, o.cyy, o.jac>>

\* C17: Poly.updatetransf called with a vector of odd length >= 3 does not
\* raise and leaves both triangular coefficient arrays, the four
\* derivative arrays and the cached Jacobian exactly as they were.
C17_OddVectorIsNoOp ==
    [][(/\ call'.op = "Poly.updatetransf"
        /\ Len(call'.p) >= 3
        /\ Len(call'.p) % 2 = 1) =>
          /\ raised' = "none"
          /\ CoefficientState(poly') = CoefficientState(poly)]_vars

\* what propxy returns when it returns nothing
EmptyXY == [xtran |-> <<>>, ytran |-> <<>>]

\* C18: for each of Poly, Tan2equ and Equ2tan, propxy, the Jacobian
\* evaluator and propcov called with zero-length position arrays return an
\* empty result and do not raise.
C18_EmptyInEmptyOut ==
    /\ propxy(poly, <<>>, <<>>) = EmptyXY
    /\ evaluatejacpoly(poly, <<>>, <<>>) = <<>>
    /\ \A C \in {<<>>, poly.covxy} :
          propcov(poly, C, <<>>, <<>>) = [v |-> <<>>, raised |-> "none"]
    /\ gn.cls = "Tan2equ" =>
          /\ Tan2equ_propxy(gn, <<>>, <<>>) = EmptyXY
          /\ Tan2equ_evaluatejac(gn, <<>>, <<>>) = <<>>
          /\ \A C \in {<<>>, gn.covxy} :
                Tan2equ_propcov(gn, C, <<>>, <<>>) = [v |-> <<>>, raised |-> "none"]
    /\ gn.cls = "Equ2tan" =>
          /\ Equ2tan_propxy(gn, <<>>, <<>>) = EmptyXY
          /\ Equ2tan_evaluatejac(gn, <<>>, <<>>) = <<>>
          /\ \A C \in {<<>>, gn.covxy} :
                Equ2tan_propcov(gn, C, <<>>, <<>>) = [v |-> <<>>, raised |-> "none"]

(***************************************************************************)
(* Specification of the propagation of covariances: a Poly and a Tan2equ   *)
(* or Equ2tan are constructed on data, then propcov is called on either    *)
(* with positions and one symmetric 2x2 plane a position.                  *)
(***************************************************************************)

\* symmetric 2x2 planes, and stacks of m of them
SymPlanes ==
    {<<<<a, b>>, <<b, c>>>> : a \in {4}, b \in {-1, 2}, c \in {9}}
SymStacks(m) ==
    {[k \in 1..m |-> P] : P \in SymPlanes}
      \cup {[k \in 1..m |-> <<<<k, 2 * k>>, <<2 * k, 9>>>>]}

InitPropagate ==
    \E n \in {MaxPts}, d \in 1..MaxDeg, pars \in TangentPoints,
       cls \in {"Tan2equ", "Equ2tan"} :
        /\ poly = Poly(DataX(n, 0), DataY(n, 0), <<>>,
                       FlatVec(Tri(d), 1), FlatVec(Tri(d), 1 + Tri(d)),
                       Limits(<<-2, 2, -1, 1>>))
        /\ gn = IF cls = "Tan2equ"
                THEN Tan2equ(DataX(n, 0), DataY(n, 0), <<>>, pars, TRUE)
                ELSE Equ2tan(DataX(n, 0), DataY(n, 0), <<>>, pars, TRUE)
        /\ ret = NoReturn
        /\ pn = NoPolynom
        /\ raised = "none"
        /\ call = BlankCall
        /\ calls = 0
        /\ pc = Polycoeffs(<<>>).o
        /\ pv = Parvec(<<>>).o
        /\ pm = NoPatternmatrix
        /\ pmargs = NoArgs
        /\ chain = NoChain
        /\ chainargs = NoChainArgs
        /\ count = 0
        /\ deg = NoDeg

PolyPropcov(C, x, y) ==
    /\ calls < MaxCalls
    /\ calls' = calls + 1
    /\ LET r == propcov(poly, C, x, y)
       IN  ret' = [of |-> "Poly.propcov", v |-> r.v] /\ raised' = r.raised
    /\ call' = [BlankCall EXCEPT !.op = "Poly.propcov", !.p = C]
    /\ UNCHANGED <<pn, chain, chainargs, gn, poly, pc, pv, pm, pmargs, count, deg>>

Tan2equPropcov(C, x, y) ==
    /\ gn.cls = "Tan2equ"
    /\ calls < MaxCalls
    /\ calls' = calls + 1
    /\ LET r == Tan2equ_propcov(gn, C, x, y)
       IN  ret' = [of |-> "Tan2equ.propcov", v |-> r.v] /\ raised' = r.raised
    /\ call' = [BlankCall EXCEPT !.op = "Tan2equ.propcov", !.p = C]
    /\ UNCHANGED <<pn, chain, chainargs, gn, poly, pc, pv, pm, pmargs, count, deg>>

Equ2tanPropcov(C, x, y) ==
    /\ gn.cls = "Equ2tan"
    /\ calls < MaxCalls
    /\ calls' = calls + 1
    /\ LET r == Equ2tan_propcov(gn, C, x, y)
       IN  ret' = [of |-> "Equ2tan.propcov", v |-> r.v] /\ raised' = r.raised
    /\ call' = [BlankCall EXCEPT !.op = "Equ2tan.propcov", !.p = C]
    /\ UNCHANGED <<pn, chain, chainargs, gn, poly, pc, pv, pm, pmargs, count, deg>>

NextPropagate ==
    \E m \in 1..MaxPts :
      \E C \in SymStacks(m) :
        \/ PolyPropcov(C, DataX(m, 0), DataY(m, 0))
        \/ Tan2equPropcov(C, DataX(m, 2), DataY(m, 2))
        \/ Equ2tanPropcov(C, DataX(m, 2), DataY(m, 2))

SpecPropagate == InitPropagate /\ [][NextPropagate]_vars

\* C19: the covariance J * C * J^T that propcov of Poly, Tan2equ and
\* Equ2tan returns for symmetric planes C has equal off-diagonal entries,
\* for every point of the batch and whatever the entries of J.
C19_CovarianceSymmetry ==
    /\ (ret.of = "Poly.propcov" /\ raised = "none") =>
          /\ Len(ret.v) = Len(call.p)
          /\ \A k \in DOMAIN ret.v : ret.v[k][1][2] = ret.v[k][2][1]
    /\ (ret.of \in {"Tan2equ.propcov", "Equ2tan.propcov"} /\ raised = "none") =>
          /\ Len(ret.v) = Len(call.p)
          /\ \A k \in DOMAIN ret.v :
                TermMatrix(ret.v[k])[1][2] = TermMatrix(ret.v[k])[2][1]

\* propcov has returned the covariances of a full batch whose planes have
\* nonzero off-diagonal entries
C19_Witness ==
    /\ ret.of \in {"Poly.propcov", "Tan2equ.propcov", "Equ2tan.propcov"}
    /\ raised = "none"
    /\ Len(ret.v) = MaxPts
    /\ \A k \in DOMAIN call.p : call.p[k][1][2] # 0

(***************************************************************************)
(* The gnomonic projection in exact arithmetic.  A number q * sqrt(n) is   *)
(* [q |-> a rational, n |-> a squarefree integer >= 1]; an angle is kept   *)
(* as its sine and cosine, [s |-> ..., c |-> ...], which tells angles      *)
(* apart within one turn.  Inputs that the arithmetic can carry exactly    *)
(* are the terms                                                           *)
(*   [f |-> "angle", s, c, per]  the angle with sine s and cosine c,       *)
(*                               written in the unit of per radians,       *)
(*   [f |-> "num", v, per]       the number v / per,                       *)
(* next to the terms "alphaf", "deltaf", "xi", "eta" that propxy returns.  *)
(***************************************************************************)

RNeg(q) == <<-q[1], q[2]>>
RInv(q) == Rat(q[2], q[1])

\* the largest s with s * s dividing m >= 1
SquarePart(m) ==
    LET r == CHOOSE r \in 1..m : (r + 1) > m \div (r + 1)
        S == {s \in 1..r : m % (s * s) = 0}
    IN  CHOOSE s \in S : \A t \in S : t <= s

\* q * sqrt(n) for a squarefree n, with zero written in one way
Surd(q, n) ==
    IF q[1] = 0 THEN [q |-> RInt(0), n |-> 1] ELSE [q |-> q, n |-> n]

SRat(q) == [q |-> q, n |-> 1]
SNeg(a) == [a EXCEPT !.q = RNeg(a.q)]
SMul(a, b) ==
    Only({LET g == Gcd(x.n, y.n)
          IN  Surd(RMul(RMul(x.q, y.q), RInt(g)), (x.n \div g) * (y.n \div g)) :
          x \in {a}, y \in {b}})
SInv(a) == Only({[q |-> RInv(RMul(x.q, RInt(x.n))), n |-> x.n] : x \in {a}})
SDiv(a, b) == SMul(a, SInv(b))

\* a sum of two numbers with different square roots is kept unevaluated
SAdd(a, b) ==
    Only({IF x.q[1] = 0 THEN y
          ELSE IF y.q[1] = 0 THEN x
          ELSE IF x.n = y.n THEN Surd(RAdd(x.q, y.q), x.n)
          ELSE [q |-> <<"sum", x, y>>, n |-> 1] :
          x \in {a}, y \in {b}})
SSub(a, b) == SAdd(a, SNeg(b))

\* np.sqrt of a rational p / d >= 0 in lowest terms: with the squares sp^2
\* and sd^2 taken out of p and d, (sp / (sd * d')) * sqrt(p' * d')
sqrt(a) ==
    Only({LET sp == IF x.q[1] = 0 THEN 1 ELSE SquarePart(x.q[1])
              sd == SquarePart(x.q[2])
              pp == x.q[1] \div (sp * sp)
              dd == x.q[2] \div (sd * sd)
          IN  Surd(Rat(IF x.q[1] = 0 THEN 0 ELSE sp, sd * dd), pp * dd) :
          x \in {a}})

\* np.arctan(u): the angle in (-pi/2, pi/2) with tangent u
arctan(u) ==
    Only({[s |-> SDiv(u, h), c |-> SInv(h)] :
          h \in {sqrt(SAdd(SRat(RInt(1)), SMul(u, u)))}})

\* a + b and a - b of two angles
AngleAdd(a, b) ==
    Only({[s |-> SAdd(SMul(x.s, y.c), SMul(x.c, y.s)),
           c |-> SSub(SMul(x.c, y.c), SMul(x.s, y.s))] : x \in {a}, y \in {b}})
AngleSub(a, b) ==
    Only({[s |-> SSub(SMul(x.s, y.c), SMul(x.c, y.s)),
           c |-> SAdd(SMul(x.c, y.c), SMul(x.s, y.s))] : x \in {a}, y \in {b}})

\* Tan2equ.propxy: gamma, alphaf and deltaf from xi, eta, alpha0, delta0
Tan2equ_gamma_plus(eta, delta0) == SAdd(delta0.c, SMul(eta, delta0.s))
Tan2equ_gamma(eta, delta0) == SSub(delta0.c, SMul(eta, delta0.s))
Tan2equ_alphaf(xi, eta, alpha0, delta0) ==
    Only({AngleAdd(alpha0, arctan(SDiv(xi, gamma))) :
          gamma \in {Tan2equ_gamma(eta, delta0)}})
Tan2equ_deltaf(xi, eta, alpha0, delta0) ==
    Only({arctan(SDiv(SAdd(SMul(eta, delta0.c), delta0.s),
                      sqrt(SAdd(SMul(xi, xi), SMul(gamma, gamma))))) :
          gamma \in {Tan2equ_gamma(eta, delta0)}})

\* Equ2tan.propxy: denom, xi and eta from alpha, delta, alpha0, delta0
Equ2tan_denom(alpha, delta, alpha0, delta0) ==
    Only({SAdd(SMul(SMul(da.c, delta.c), delta0.c), SMul(delta.s, delta0.s)) :
          da \in {AngleSub(alpha, alpha0)}})
Equ2tan_xi(alpha, delta, alpha0, delta0) ==
    Only({SDiv(SMul(delta.c, da.s), denom) :
          da \in {AngleSub(alpha, alpha0)},
          denom \in {Equ2tan_denom(alpha, delta, alpha0, delta0)}})
Equ2tan_eta(alpha, delta, alpha0, delta0) ==
    Only({SDiv(SSub(SMul(delta0.c, delta.s),
                    SMul(SMul(da.c, delta.c), delta0.s)), denom) :
          da \in {AngleSub(alpha, alpha0)},
          denom \in {Equ2tan_denom(alpha, delta, alpha0, delta0)}})

\* the number, or the angle, that a term times a conversion factor is: the
\* factor cancels the unit the term is written in only when the two agree
RECURSIVE NumberOf(_)
RECURSIVE AngleOf(_)
NumberOf(a) ==
    LET t == a[1]
    IN  IF t.per # a[2] THEN [q |-> <<"times", t, a[2]>>, n |-> 1]
        ELSE IF t.f = "num" THEN SRat(t.v)
        ELSE Only({IF t.f = "xi" THEN Equ2tan_xi(alpha, delta, alpha0, delta0)
                   ELSE Equ2tan_eta(alpha, delta, alpha0, delta0) :
                   alpha \in {AngleOf(t.at.alpha)},
                   delta \in {AngleOf(t.at.delta)},
                   alpha0 \in {AngleOf(t.at.alpha0)},
                   delta0 \in {AngleOf(t.at.delta0)}})
AngleOf(a) ==
    LET t == a[1]
    IN  IF t.per # a[2] THEN [s |-> <<"times", t, a[2]>>, c |-> <<>>]
        ELSE IF t.f = "angle" THEN [s |-> SRat(t.s), c |-> SRat(t.c)]
        ELSE Only({IF t.f = "alphaf" THEN Tan2equ_alphaf(xi, eta, alpha0, delta0)
                   ELSE Tan2equ_deltaf(xi, eta, alpha0, delta0) :
                   xi \in {NumberOf(t.at.xi)},
                   eta \in {NumberOf(t.at.eta)},
                   alpha0 \in {AngleOf(t.at.alpha0)},
                   delta0 \in {AngleOf(t.at.delta0)}})

\* angles with rational sine and cosine, and rational plane coordinates
SkyAngle(k, per) ==
    [f |-> "angle", s |-> <<<<3, 5>>, <<5, 13>>, <<4, 5>>, <<0, 1>>>>[k],
     c |-> <<<<4, 5>>, <<12, 13>>, <<3, 5>>, <<1, 1>>>>[k], per |-> per]
PlaneNumber(k, per) ==
    [f |-> "num", v |-> <<<<1, 8>>, <<-1, 4>>, <<0, 1>>, <<1, 2>>>>[k],
     per |-> per]
SkyTangentPoints(per) ==
    {<<SkyAngle(1, per), SkyAngle(1, per)>>,
     <<SkyAngle(2, per), SkyAngle(3, per)>>}
Shifts == 0..1
SkyX(n, s, per) == [k \in 1..n |-> SkyAngle(k + s, per)]
SkyY(n, s, per) == [k \in 1..n |-> SkyAngle(((k + s) % 3) + 1, per)]
PlaneX(n, s, per) == [k \in 1..n |-> PlaneNumber(k + s, per)]
PlaneY(n, s, per) == [k \in 1..n |-> PlaneNumber(((k + s) % 4) + 1, per)]
UnitOf(degrees) == IF degrees THEN "pi/180" ELSE "1"

InitSky ==
    \E cls \in {"Tan2equ", "Equ2tan"}, degrees \in BOOLEAN :
      \E pars \in SkyTangentPoints(UnitOf(degrees)) :
        /\ gn = IF cls = "Tan2equ"
                THEN Tan2equ(<<>>, <<>>, <<>>, pars, degrees)
                ELSE Equ2tan(<<>>, <<>>, <<>>, pars, degrees)
        /\ ret = NoReturn
        /\ pn = NoPolynom
        /\ raised = "none"
        /\ call = BlankCall
        /\ calls = 0
        /\ poly = BlankPoly
        /\ pc = Polycoeffs(<<>>).o
        /\ pv = Parvec(<<>>).o
        /\ pm = NoPatternmatrix
        /\ pmargs = NoArgs
        /\ chain = NoChain
        /\ chainargs = NoChainArgs
        /\ count = 0
        /\ deg = NoDeg

Tan2equPropxy(x, y) ==
    /\ gn.cls = "Tan2equ"
    /\ calls < MaxCalls
    /\ calls' = calls + 1
    /\ LET r == Tan2equ_propxy(gn, x, y)
       IN  ret' = [of |-> "Tan2equ.propxy", v |-> <<r.xtran, r.ytran>>]
    /\ call' = [BlankCall EXCEPT !.op = "Tan2equ.propxy", !.p = <<x, y>>]
    /\ UNCHANGED <<pn, raised, chain, chainargs, gn, poly, pc, pv, pm, pmargs, count, deg>>

Equ2tanPropxy(x, y) ==
    /\ gn.cls = "Equ2tan"
    /\ calls < MaxCalls
    /\ calls' = calls + 1
    /\ LET r == Equ2tan_propxy(gn, x, y)
       IN  ret' = [of |-> "Equ2tan.propxy", v |-> <<r.xtran, r.ytran>>]
    /\ call' = [BlankCall EXCEPT !.op = "Equ2tan.propxy", !.p = <<x, y>>]
    /\ UNCHANGED <<pn, raised, chain, chainargs, gn, poly, pc, pv, pm, pmargs, count, deg>>

\* the transformation of the other direction is made for the tangent point
\* and the unit of the one at hand
GnomonicInverse ==
    /\ ret.of = gn.cls \o ".propxy"
    /\ gn' = IF gn.cls = "Tan2equ"
             THEN Equ2tan(<<>>, <<>>, <<>>, gn.pars, gn.degrees)
             ELSE Tan2equ(<<>>, <<>>, <<>>, gn.pars, gn.degrees)
    /\ UNCHANGED <<pn, ret, raised, call, calls, chain, chainargs, poly, pc, pv, pm, pmargs, count, deg>>

NextSky ==
    \/ \E n \in 1..MaxPts, s \in Shifts :
          Tan2equPropxy(PlaneX(n, s, gn.conv2rad), PlaneY(n, s, gn.conv2rad))
    \/ \E n \in 1..MaxPts, s \in Shifts :
          Equ2tanPropxy(SkyX(n, s, gn.conv2rad), SkyY(n, s, gn.conv2rad))
    \/ ret.of = "Equ2tan.propxy" /\ Tan2equPropxy(ret.v[1], ret.v[2])
    \/ ret.of = "Tan2equ.propxy" /\ Equ2tanPropxy(ret.v[1], ret.v[2])
    \/ GnomonicInverse

SpecSky == InitSky /\ [][NextSky]_vars

\* the call at hand was handed what propxy of the other direction returned
\* for the same tangent point and unit
RoundTrip(of, f) ==
    /\ ret.of = of
    /\ Len(call.p[1]) > 0
    /\ \A k \in DOMAIN call.p[1] :
          /\ call.p[1][k].f = f
          /\ call.p[1][k].per = gn.conv2rad
          /\ call.p[1][k].at.alpha0 = Radians(gn, gn.pars[1])
          /\ call.p[1][k].at.delta0 = Radians(gn, gn.pars[2])

\* C20: for one tangent point and one unit, Equ2tan.propxy applied to what
\* Tan2equ.propxy returned for (xi, eta) returns (xi, eta), and
\* Tan2equ.propxy applied to what Equ2tan.propxy returned for (alpha, delta)
\* returns (alpha, delta), for every point of the batch.
C20_GnomonicRoundTrip ==
    /\ RoundTrip("Equ2tan.propxy", "alphaf") =>
          /\ Len(ret.v[1]) = Len(call.p[1])
          /\ Len(ret.v[2]) = Len(call.p[1])
          /\ \A k \in DOMAIN call.p[1] :
                /\ ret.v[1][k].per = call.p[1][k].at.xi[1].per
                /\ ret.v[2][k].per = call.p[2][k].at.eta[1].per
                /\ NumberOf(Radians(gn, ret.v[1][k]))
                      = NumberOf(call.p[1][k].at.xi)
                /\ NumberOf(Radians(gn, ret.v[2][k]))
                      = NumberOf(call.p[2][k].at.eta)
    /\ RoundTrip("Tan2equ.propxy", "xi") =>
          /\ Len(ret.v[1]) = Len(call.p[1])
          /\ Len(ret.v[2]) = Len(call.p[1])
          /\ \A k \in DOMAIN call.p[1] :
                /\ ret.v[1][k].per = call.p[1][k].at.alpha[1].per
                /\ ret.v[2][k].per = call.p[2][k].at.delta[1].per
                /\ AngleOf(Radians(gn, ret.v[1][k]))
                      = AngleOf(call.p[1][k].at.alpha)
                /\ AngleOf(Radians(gn, ret.v[2][k]))
                      = AngleOf(call.p[2][k].at.delta)

\* a full batch of points, one of them off both axes of the tangent plane,
\* has gone through Tan2equ and back through Equ2tan
C20_Witness ==
    /\ RoundTrip("Equ2tan.propxy", "alphaf")
    /\ Len(ret.v[1]) = MaxPts
    /\ \E k \in DOMAIN call.p[1] :
          /\ NumberOf(call.p[1][k].at.xi).q[1] # 0
          /\ NumberOf(call.p[2][k].at.eta).q[1] # 0

(***************************************************************************)
(* The Jacobians of the gnomonic projection in exact arithmetic.           *)
(***************************************************************************)

SOne == SRat(RInt(1))
SSquare(a) == SMul(a, a)

\* Tan2equ.evaluatejac: the entry named f at xi, eta for the tangent point
\* declination delta0
Tan2equ_jacentry_swap(f, xi, eta, delta0) ==
    Only({IF f = "J_ax"
          THEN SInv(SMul(gamma, SAdd(SOne, SSquare(SDiv(xi, gamma)))))
          ELSE IF f = "J_ay"
          THEN SDiv(SMul(xi, delta0.c),
                    SAdd(SSub(SAdd(SSquare(xi), SSquare(delta0.c)),
                              SMul(SMul(SRat(RInt(2)), eta),
                                   SMul(delta0.c, delta0.s))),
                         SMul(SSquare(eta), SSquare(delta0.s))))
          ELSE IF f = "J_dx"
          THEN SSub(SRat(RInt(0)),
                    SDiv(SMul(xi, SAdd(SMul(eta, delta0.c), delta0.s)),
                         denom10))
          ELSE SDiv(SSub(SMul(SAdd(SOne, SSquare(xi)), delta0.c),
                         SMul(eta, delta0.s)), denom10) :
          gamma \in {Tan2equ_gamma(eta, delta0)},
          denom10 \in {SMul(SAdd(SAdd(SOne, SSquare(xi)), SSquare(eta)),
                            sqrt(SAdd(SSquare(xi),
                                      SSquare(Tan2equ_gamma(eta, delta0)))))}})
Tan2equ_jacentry(f, xi, eta, delta0) ==
    Only({IF f = "J_ax"
          THEN SInv(SMul(gamma, SAdd(SOne, SSquare(SDiv(xi, gamma)))))
          ELSE IF f = "J_ay"
          THEN SDiv(SMul(xi, delta0.s),
                    SAdd(SSub(SAdd(SSquare(xi), SSquare(delta0.c)),
                              SMul(SMul(SRat(RInt(2)), eta),
                                   SMul(delta0.c, delta0.s))),
                         SMul(SSquare(eta), SSquare(delta0.s))))
          ELSE IF f = "J_dx"
          THEN SSub(SRat(RInt(0)),
                    SDiv(SMul(xi, SAdd(SMul(eta, delta0.c), delta0.s)),
                         denom10))
          ELSE SDiv(SSub(SMul(SAdd(SOne, SSquare(xi)), delta0.c),
                         SMul(eta, delta0.s)), denom10) :
          gamma \in {Tan2equ_gamma(eta, delta0)},
          denom10 \in {SMul(SAdd(SAdd(SOne, SSquare(xi)), SSquare(eta)),
                            sqrt(SAdd(SSquare(xi),
                                      SSquare(Tan2equ_gamma(eta, delta0)))))}})

\* Equ2tan.evaluatejac: the entry named f at alpha, delta for the tangent
\* point alpha0, delta0
Equ2tan_jacentry(f, alpha, delta, alpha0, delta0) ==
    Only({IF f = "J_xia"
          THEN SDiv(SMul(delta.c,
                         SAdd(SMul(delta.c, delta0.c),
                              SMul(SMul(da.c, delta.s), delta0.s))), denom)
          ELSE IF f = "J_xid"
          THEN SSub(SRat(RInt(0)), SDiv(SMul(da.s, delta0.s), denom))
          ELSE IF f = "J_etaa"
          THEN SDiv(SMul(SMul(SRat(<<1, 2>>), da.s),
                         AngleAdd(delta, delta).s), denom)
          ELSE SDiv(da.c, denom) :
          da \in {AngleSub(alpha, alpha0)},
          denom \in {SSquare(Equ2tan_denom(alpha, delta, alpha0, delta0))}})

\* the number that an entry of a Jacobian is
JacEntryOf(t) ==
    IF t.f \in {"J_ax", "J_ay", "J_dx", "J_dy"}
    THEN Only({Tan2equ_jacentry(t.f, xi, eta, delta0) :
               xi \in {NumberOf(t.at.xi)}, eta \in {NumberOf(t.at.eta)},
               delta0 \in {AngleOf(t.at.delta0)}})
    ELSE Only({Equ2tan_jacentry(t.f, alpha, delta, alpha0, delta0) :
               alpha \in {AngleOf(t.at.alpha)}, delta \in {AngleOf(t.at.delta)},
               alpha0 \in {AngleOf(t.at.alpha0)},
               delta0 \in {AngleOf(t.at.delta0)}})

\* np.matmul of two 2x2 planes of Jacobian entries
JacProduct(A, B) ==
    Only({[a \in 1..2 |-> [b \in 1..2 |->
              SAdd(SMul(X[a][1], Y[1][b]), SMul(X[a][2], Y[2][b]))]] :
          X \in {[a \in 1..2 |-> [b \in 1..2 |-> JacEntryOf(A[a][b])]]},
          Y \in {[a \in 1..2 |-> [b \in 1..2 |-> JacEntryOf(B[a][b])]]}})
SEye2 == [a \in 1..2 |-> [b \in 1..2 |-> SRat(Eye2[a][b])]]

Tan2equEvaluatejac(x, y) ==
    /\ gn.cls = "Tan2equ"
    /\ calls < MaxCalls
    /\ calls' = calls + 1
    /\ ret' = [of |-> "Tan2equ.evaluatejac", v |-> Tan2equ_evaluatejac(gn, x, y)]
    /\ call' = [BlankCall EXCEPT !.op = "Tan2equ.evaluatejac", !.p = <<x, y>>]
    /\ UNCHANGED <<pn, raised, chain, chainargs, gn, poly, pc, pv, pm, pmargs, count, deg>>

Equ2tanEvaluatejac(x, y) ==
    /\ gn.cls = "Equ2tan"
    /\ calls < MaxCalls
    /\ calls' = calls + 1
    /\ ret' = [of |-> "Equ2tan.evaluatejac", v |-> Equ2tan_evaluatejac(gn, x, y)]
    /\ call' = [BlankCall EXCEPT !.op = "Equ2tan.evaluatejac", !.p = <<x, y>>]
    /\ UNCHANGED <<pn, raised, chain, chainargs, gn, poly, pc, pv, pm, pmargs, count, deg>>

NextJac ==
    \/ \E n \in 1..MaxPts, s \in Shifts :
          Tan2equPropxy(PlaneX(n, s, gn.conv2rad), PlaneY(n, s, gn.conv2rad))
    \/ \E n \in 1..MaxPts, s \in Shifts :
          Tan2equEvaluatejac(PlaneX(n, s, gn.conv2rad), PlaneY(n, s, gn.conv2rad))
    \/ \E n \in 1..MaxPts, s \in Shifts :
          Equ2tanEvaluatejac(SkyX(n, s, gn.conv2rad), SkyY(n, s, gn.conv2rad))
    \/ ret.of = "Tan2equ.propxy" /\ Equ2tanEvaluatejac(ret.v[1], ret.v[2])
    \/ GnomonicInverse

SpecJac == InitSky /\ [][NextJac]_vars

PolynomSizes == {Tri(d) : d \in 1..PolynomOrder}

\* coefficient vectors handed to polyval2d and jac2d: the complete ones,
\* a scalar, and a vector of two
PolynomPars == {FlatVec(m, 1) : m \in PolynomSizes \cup {1, 2}}

\* posxy: the first n sample points, shifted by s, as an (n, 2) array
PosXY(n, s) == [k \in 1..n |-> <<DataX(n, s)[k], DataY(n, s)[k]>>]

InitPolynom ==
    \E n \in 1..MaxPts, s \in Shifts, m \in PolynomSizes \cup {1, 2} :
        /\ pn = Polynom(PosXY(n, s), <<>>, FlatVec(m, 1), FlatVec(m, 2), TRUE)
        /\ ret = NoReturn
        /\ raised = "none"
        /\ call = BlankCall
        /\ calls = 0
        /\ gn = NoGnomonic
        /\ poly = BlankPoly
        /\ pc = Polycoeffs(<<>>).o
        /\ pv = Parvec(<<>>).o
        /\ pm = NoPatternmatrix
        /\ pmargs = NoArgs
        /\ chain = NoChain
        /\ chainargs = NoChainArgs
        /\ count = 0
        /\ deg = NoDeg

PolynomPolyval2d(pars) ==
    /\ calls < MaxCalls
    /\ calls' = calls + 1
    /\ raised' = Polynom_polyval2d(pn, pars).raised
    /\ ret' = [of |-> "Polynom.polyval2d", v |-> Polynom_polyval2d(pn, pars).v]
    /\ call' = [BlankCall EXCEPT !.op = "Polynom.polyval2d", !.p = pars]
    /\ UNCHANGED <<pn, chain, chainargs, gn, poly, pc, pv, pm, pmargs, count, deg>>

PolynomJac2d(pars) ==
    /\ calls < MaxCalls
    /\ calls' = calls + 1
    /\ raised' = Polynom_jac2d(pn, pars).raised
    /\ ret' = [of |-> "Polynom.jac2d", v |-> Polynom_jac2d(pn, pars).v]
    /\ call' = [BlankCall EXCEPT !.op = "Polynom.jac2d", !.p = pars]
    /\ UNCHANGED <<pn, chain, chainargs, gn, poly, pc, pv, pm, pmargs, count, deg>>

PolynomTranpos ==
    /\ calls < MaxCalls
    /\ calls' = calls + 1
    /\ pn' = Polynom_tranpos(pn).o
    /\ raised' = Polynom_tranpos(pn).raised
    /\ call' = [BlankCall EXCEPT !.op = "Polynom.tranpos"]
    /\ UNCHANGED <<ret, chain, chainargs, gn, poly, pc, pv, pm, pmargs, count, deg>>

PolynomGetjacobian ==
    /\ calls < MaxCalls
    /\ calls' = calls + 1
    /\ pn' = Polynom_getjacobian(pn).o
    /\ raised' = Polynom_getjacobian(pn).raised
    /\ call' = [BlankCall EXCEPT !.op = "Polynom.getjacobian"]
    /\ UNCHANGED <<ret, chain, chainargs, gn, poly, pc, pv, pm, pmargs, count, deg>>

NextPolynom ==
    \/ \E pars \in PolynomPars : PolynomPolyval2d(pars)
    \/ \E pars \in PolynomPars : PolynomJac2d(pars)
    \/ PolynomTranpos
    \/ PolynomGetjacobian

SpecPolynom == InitPolynom /\ [][NextPolynom]_vars

\* 60 times the derivative along x, at (x, y), of the polynomial polyval2d
\* evaluates for pars: the central difference over six neighbours, which
\* is exact for a polynomial of order six or less
PolyvalDx60(pars, x, y) ==
    LET b == BlocksOf(Len(pars))
    IN  45 * (PolyvalAt(b, pars, x + 1, y) - PolyvalAt(b, pars, x - 1, y))
        - 9 * (PolyvalAt(b, pars, x + 2, y) - PolyvalAt(b, pars, x - 2, y))
        + (PolyvalAt(b, pars, x + 3, y) - PolyvalAt(b, pars, x - 3, y))

\* the same along y
PolyvalDy60(pars, x, y) ==
    LET b == BlocksOf(Len(pars))
    IN  45 * (PolyvalAt(b, pars, x, y + 1) - PolyvalAt(b, pars, x, y - 1))
        - 9 * (PolyvalAt(b, pars, x, y + 2) - PolyvalAt(b, pars, x, y - 2))
        + (PolyvalAt(b, pars, x, y + 3) - PolyvalAt(b, pars, x, y - 3))

\* C22: for a coefficient vector of length 3, 6, 10, 15 or 21 and every
\* point (x, y) of the instance, Polynom.jac2d returns exactly the partial
\* derivatives along x and along y of the polynomial that Polynom.polyval2d
\* evaluates for that vector.
C22_Jac2dIsDerivative ==
    (/\ call.op = "Polynom.jac2d"
     /\ Len(call.p) \in PolynomSizes) =>
        /\ raised = "none"
        /\ Len(ret.v[1]) = Len(pn.x)
        /\ Len(ret.v[2]) = Len(pn.x)
        /\ \A k \in DOMAIN pn.x :
              /\ 60 * ret.v[1][k] = PolyvalDx60(call.p, pn.x[k], pn.y[k])
              /\ 60 * ret.v[2][k] = PolyvalDy60(call.p, pn.x[k], pn.y[k])

\* jac2d has returned for a fifth-order vector on a full batch of points,
\* one of them off both axes
C22_Witness ==
    /\ call.op = "Polynom.jac2d"
    /\ raised = "none"
    /\ Len(call.p) = Tri(PolynomOrder)
    /\ Len(pn.x) = MaxPts
    /\ \E k \in DOMAIN pn.x : pn.x[k] # 0 /\ pn.y[k] # 0 /\ ret.v[1][k] # 0

\* m is the coefficient count of a complete polynomial of some degree
ValidCount(m) == m >= 1 /\ assigndeg(m) # NoDeg

\* C23: Poly.updatetransf(v), where the halves of v have a valid
\* coefficient count different from the count of the coefficients the
\* instance holds, does not fail and leaves both triangular arrays with
\* the shape of the new degree, v's coefficients at their (i, j) positions
\* and zero elsewhere, so that no coefficient of the previous vector remains.
C23_ArraysFollowDegree ==
    [][(/\ call'.op = "Poly.updatetransf"
        /\ Len(call'.p) >= 2
        /\ Len(call'.p) % 2 = 0
        /\ ValidCount(Len(call'.p) \div 2)
        /\ Len(call'.p) \div 2 # Len(poly.pars2x.p)) =>
          /\ raised' = "none"
          /\ poly'.pars2x.p2d = TriangleOf(splitpars(call'.p).parsx)
          /\ poly'.pars2y.p2d = TriangleOf(splitpars(call'.p).parsy)]_vars

\* C24: constructing xy2equ or TangentPlane with a valid parameter vector,
\* data and kindpoly = K completes without error and yields a polynomial
\* sub-transform xy2tp whose kind is K, or 'Polynomial' when Poly does not
\* support K.
C24_ChainHonoursBasis ==
    (/\ call.op \in {"xy2equ.__init__", "TangentPlane.__init__"}
     /\ ValidChainPars(chainargs.pars)) =>
        /\ raised = "none"
        /\ chain.cls = chainargs.cls
        /\ chain.xy2tp.kind = IF chainargs.kindpoly \in PolysAllowed
                              THEN chainargs.kindpoly ELSE "Polynomial"

\* ingestpars stores the halves of the vector: its part after the tangent
\* point splits in two halves of count n with n or n + 1 triangular
AcceptedParvec(pars) ==
    /\ Splittable(pars)
    /\ IsTri(AxisCount(pars)) \/ IsTri(AxisCount(pars) + 1)

\* C25: after every ingestpars call on a Parvec with a vector it accepts,
\* whatever was ingested before, hasxy0 is True when that vector included
\* the constant term and False when it was of the no-constant-term form; a
\* with-constant vector ingested after a no-constant one restores True.
C25_FlagTracksLatestVector ==
    [][(call'.op = "Parvec.ingestpars" /\ AcceptedParvec(call'.p)) =>
          pv'.hasxy0 = IsTri(AxisCount(call'.p))]_vars

(***************************************************************************)
(* Specification of the domain of a Poly: constructed as above, then given *)
(* new positions and new limits, with setdomain called in between, with    *)
(* and without clobber.                                                    *)
(***************************************************************************)
PolySetdomain(clobber) ==
    /\ calls < MaxCalls
    /\ calls' = calls + 1
    /\ poly' = setdomain(poly, clobber)
    /\ call' = [BlankCall EXCEPT !.op = "Poly.setdomain", !.clobber = clobber]
    /\ UNCHANGED <<pn, ret, chain, chainargs, gn, pc, pv, pm, pmargs, count, deg, raised>>

NextDomain ==
    \/ \E clobber \in BOOLEAN : PolySetdomain(clobber)
    \/ \E n \in {0, MaxPts} : PolyUpdatedata(DataX(n, 2), DataY(n, 2), <<>>)
    \/ \E d \in PolyDomains : PolyUpdatelimits(Limits(d))

SpecDomain == InitPoly /\ [][NextDomain]_vars

\* C26: Poly.setdomain(clobber=True) on an instance with all four limits
\* supplied and non-empty data only widens the domain: afterwards xmin is
\* the smaller of the supplied xmin and min(x), xmax the larger of the
\* supplied xmax and max(x), and likewise ymin and ymax, so that a supplied
\* limit lying outside the data range is kept.
C26_ClobberOnlyWidens ==
    [][(/\ call'.op = "Poly.setdomain"
        /\ call'.clobber
        /\ \A l \in 1..4 : DomainOf(poly)[l] # None
        /\ Len(poly.x) > 0
        /\ Len(poly.y) > 0) =>
          /\ poly'.xmin = Some(Min2(poly.xmin[1], SeqMin(poly.x)))
          /\ poly'.xmax = Some(Max2(poly.xmax[1], SeqMax(poly.x)))
          /\ poly'.ymin = Some(Min2(poly.ymin[1], SeqMin(poly.y)))
          /\ poly'.ymax = Some(Max2(poly.ymax[1], SeqMax(poly.y)))]_vars

\* C27: Polycoeffs.getcoeffs2d(p) with p of a valid length (d+1)(d+2)/2,
\* called on a blank Polycoeffs() (deg = -1), or with clobber=True on an
\* instance that holds a vector of another degree, does not fail and
\* returns the (d+1)x(d+1) array with p at the enumerated (i, j) positions
\* and zeros elsewhere.
C27_Getcoeffs2dFromAnyState ==
    [][(/\ call'.op = "Polycoeffs.getcoeffs2d"
        /\ ValidCount(Len(call'.p))
        /\ \/ pc = Polycoeffs(<<>>).o
           \/ /\ call'.clobber
              /\ raised = "none"
              /\ pc.deg >= 0
              /\ Len(pc.p) = Tri(pc.deg)
              /\ pc.deg # assigndeg(Len(call'.p))) =>
          /\ raised' = "none"
          /\ pc'.p2d = TriangleOf(call'.p)]_vars

(***************************************************************************)
(* Specification of the two polynomial realizations side by side: a Poly   *)
(* of the Polynomial basis with the domain [-1, 1] x [-1, 1] and a Polynom *)
(* are constructed on the same points with the same coefficients, of       *)
(* order 1 to 5, then each transforms its positions and computes its       *)
(* Jacobian.                                                               *)
(***************************************************************************)
UnitDomain == Limits(<<-1, 1, -1, 1>>)

InitBoth ==
    \E n \in 1..MaxPts, s \in Shifts, m \in PolynomSizes, c \in CoefStarts :
        /\ poly = Poly(DataX(n, s), DataY(n, s), <<>>,
                       FlatVec(m, c), FlatVec(m, c + m), UnitDomain)
        /\ pn = Polynom(PosXY(n, s), <<>>, FlatVec(m, c), FlatVec(m, c + m), TRUE)
        /\ ret = NoReturn
        /\ raised = "none"
        /\ call = BlankCall
        /\ calls = 0
        /\ gn = NoGnomonic
        /\ pc = Polycoeffs(<<>>).o
        /\ pv = Parvec(<<>>).o
        /\ pm = NoPatternmatrix
        /\ pmargs = NoArgs
        /\ chain = NoChain
        /\ chainargs = NoChainArgs
        /\ count = 0
        /\ deg = NoDeg

PolyTranpos ==
    /\ calls < MaxCalls
    /\ calls' = calls + 1
    /\ poly' = tranpos(poly)
    /\ call' = [BlankCall EXCEPT !.op = "Poly.tranpos"]
    /\ UNCHANGED <<pn, ret, chain, chainargs, gn, pc, pv, pm, pmargs, count, deg, raised>>

NextBoth ==
    \/ PolyTranpos
    \/ PolyUpdatejacobian
    \/ PolynomTranpos
    \/ PolynomGetjacobian

SpecBoth == InitBoth /\ [][NextBoth]_vars

\* the numbers of a Polynom as the rationals a Poly computes with
RSeq(v) == [k \in DOMAIN v |-> RInt(v[k])]
RPlanes(J) == [k \in DOMAIN J |-> [a \in 1..2 |-> [b \in 1..2 |-> RInt(J[k][a][b])]]]

\* C28: a Poly of the Polynomial basis whose domain is [-1, 1] x [-1, 1]
\* and a Polynom given the same parsx, parsy of length 3, 6, 10, 15 or 21
\* and the same points produce identical transformed positions and
\* identical Jacobians.
C28_SameCoefficientConvention ==
    (/\ DomainOf(poly) = UnitDomain
     /\ poly.x = pn.x /\ poly.y = pn.y
     /\ poly.pars2x.p = pn.parsx /\ poly.pars2y.p = pn.parsy
     /\ Len(pn.parsx) \in PolynomSizes /\ Len(pn.parsy) \in PolynomSizes) =>
        /\ raised = "none"
        /\ pn.xtran # <<>> =>
              /\ RSeq(pn.xtran) = propxy(poly, poly.x, poly.y).xtran
              /\ RSeq(pn.ytran) = propxy(poly, poly.x, poly.y).ytran
        /\ poly.xtran # <<>> =>
              /\ poly.xtran = RSeq(Polynom_polyval2d(pn, pn.parsx).v)
              /\ poly.ytran = RSeq(Polynom_polyval2d(pn, pn.parsy).v)
        /\ pn.jac # <<>> => RPlanes(pn.jac) = poly.jac

\* a Polynom of fifth order has transformed a full batch of points and
\* computed its Jacobian, next to a Poly on the same points
C28_Witness ==
    /\ DomainOf(poly) = UnitDomain
    /\ poly.x = pn.x /\ poly.y = pn.y
    /\ poly.pars2x.p = pn.parsx /\ poly.pars2y.p = pn.parsy
    /\ Len(pn.parsx) = Tri(PolynomOrder)
    /\ Len(pn.x) = MaxPts
    /\ Len(pn.xtran) = MaxPts
    /\ Len(pn.jac) = MaxPts
    /\ Len(poly.jac) = MaxPts
    /\ \E k \in DOMAIN pn.x : pn.x[k] # 0 /\ pn.y[k] # 0

(***************************************************************************)
(* Specification of propcov on a Tan2equ whose cached positions vary: the  *)
(* instance is constructed with no positions (as a chain constructs its    *)
(* tp2equ) or with some, is given new ones, and propcov is called with     *)
(* non-empty covariances and positions.                                    *)
(***************************************************************************)
InitTangent ==
    \E n \in 0..MaxPts, pars \in TangentPoints, degrees \in BOOLEAN :
        /\ gn = Tan2equ(DataX(n, 0), DataY(n, 0), <<>>, pars, degrees)
        /\ ret = NoReturn
        /\ pn = NoPolynom
        /\ raised = "none"
        /\ call = BlankCall
        /\ calls = 0
        /\ poly = BlankPoly
        /\ pc = Polycoeffs(<<>>).o
        /\ pv = Parvec(<<>>).o
        /\ pm = NoPatternmatrix
        /\ pmargs = NoArgs
        /\ chain = NoChain
        /\ chainargs = NoChainArgs
        /\ count = 0
        /\ deg = NoDeg

\* the positions handed to propcov with the stack C: one for each plane
ArgX(C) == DataX(Len(C), 2)
ArgY(C) == DataY(Len(C), 2)

NextTangent ==
    \/ \E m \in 1..MaxPts :
         \E C \in SymStacks(m) : Tan2equPropcov(C, ArgX(C), ArgY(C))
    \/ \E n \in {0, MaxPts} : GnomonicUpdatedata(DataX(n, 2), DataY(n, 2), <<>>)

SpecTangent == InitTangent /\ [][NextTangent]_vars

\* C29: what Tan2equ.propcov(C, x, y) returns for non-empty C, x, y is
\* determined by the arguments, the tangent point and the unit: an instance
\* with the same pars and unit and other cached positions, or none at all,
\* returns the same.
C29_PropcovIgnoresCache ==
    ret.of = "Tan2equ.propcov" =>
        \A n \in 0..MaxPts :
           LET other == Tan2equ(DataX(n, 0), DataY(n, 0), <<>>,
                                gn.pars, gn.degrees)
               r == Tan2equ_propcov(other, call.p, ArgX(call.p), ArgY(call.p))
           IN  r.v = ret.v /\ r.raised = raised

\* the chain's own parameters are those its two sub-transforms hold
ParsAgree(c) ==
    /\ c.parsx = c.xy2tp.parsx
    /\ c.parsy = c.xy2tp.parsy
    /\ c.tangentpoint = c.tp2equ.pars

\* C30: once xy2equ has been constructed with a valid vector, after
\* updatetransf calls with any vectors, those that Parvec rejects included,
\* the chain's parsx, parsy and tangentpoint equal the coefficients held by
\* xy2tp and the tangent point held by tp2equ.
C30_ChainParsAgree ==
    (call.op = "xy2equ.__init__" /\ ValidChainPars(chainargs.pars)) =>
        /\ raised = "none"
        /\ ParsAgree(chain)
        /\ \A v \in ParvecInputs :
              LET r == xy2equ_updatetransf(chain, v)
              IN  /\ ParsAgree(r.o)
                  /\ \A w \in UpdatesFor(chainargs.pars) :
                        ParsAgree(xy2equ_updatetransf(r.o, w).o)

====
